---- MODULE Spec2Model ----
(***************************************************************************)
(* Metamath verifier / proof expander of theorem_expansion.py as a state   *)
(* machine: the reader MM.read feeding the FrameStack, the label table and  *)
(* the proof table, and the stack machine MM.verify_custom replaying a      *)
(* proof one label at a time.                                               *)
(***************************************************************************)
EXTENDS Integers, Sequences, FiniteSets, TLC

(***************************************************************************)
(* Bounds of the model.                                                     *)
(***************************************************************************)
\* number of statements the reader is fed after the opening of a database
MaxStmts == 3
\* number of theorems the reader is fed after the opening of a database whose
\* theorems are expanded
MaxThms == 2
\* nesting depth of ${ ... $} scopes (frames on the frame stack)
MaxDepth == 2
\* number of labels of one proof
MaxProofLen == 4

(***************************************************************************)
(* The input: the databases the reader is fed.  A database is the opening   *)
(* of its family followed by at most Budget(fam) statements of the family's  *)
(* menu, in any order and with repetitions.  The proof of a $p statement is  *)
(* any list of at most MaxProofLen labels.                                  *)
(***************************************************************************)
\* one statement: keyword, label ("" for none), the tokens up to $. (for $p:
\* up to $=)
St(kw, label, stat) == [kw |-> kw, label |-> label, stat |-> stat]

\* the families of databases MM.read is followed on as a whole:
\*   "verify": one scope, two typed variables; then verify_custom is called
\*             from outside read, as theorem_refactor.py does
\*   "scope":  declarations inside and after a nested scope
\*   "expand": theorems proved from an axiom and from each other, one of them
\*             with a label that contains 'expand', read with the expansion
\*             switched on, as theorem_expansion.py does
\*   "disjoint": an axiom with a $d restriction of its own scope, used by a
\*             theorem inside or outside that scope
\*   "splice": a theorem th with a variable of its own in its proof, used
\*             by a theorem t2 next to a step of that variable; read with the
\*             expansion switched on
Families == {"verify", "scope", "expand", "disjoint", "splice"}

\* the families of databases that end with one $p statement whose proof is
\* handed to line 813 of verify_custom (decompress_proof):
\*   "nest":  $f and $e hypotheses of one variable or statement in nested
\*            scopes, $d restrictions
\*   "codes": two typed variables and an axiom; any compressed proof
DecompressFamilies == {"nest", "codes"}

\* the families of databases that theorem_refactor.py reads and then hands
\* to refactor_all:
\*   "refactor": a theorem th and a new theorem new_theorem_0 built from one
\*               variable by one axiom; the proof of the new theorem is a
\*               part of the proof of th
\*   "hyps":     th and new_theorem_0 proved from the same two $e hypotheses
\*               by axioms that take them in either order
\*   "twice":    new_theorem_0 with one variable that its proof names twice;
\*               theorems th and t2 whose proofs have the same shape with
\*               one variable or two in these places
\*   "constant": new_theorem_0 and th built by one axiom from a constant
\*               that an axiom without hypotheses introduces
RefactorFamilies == {"refactor", "hyps", "twice", "constant"}

\* the statements every database of the family starts with
Opening(fam) ==
    CASE fam = "verify" ->
           <<St("$c", "", <<"wff">>), St("$v", "", <<"p", "q">>),
             St("$f", "wp", <<"wff", "p">>), St("$f", "wq", <<"wff", "q">>)>>
      [] fam = "scope" ->
           <<St("$c", "", <<"wff">>), St("$v", "", <<"p", "q">>), St("${", "", <<>>)>>
      [] fam = "expand" ->
           <<St("$c", "", <<"wff">>), St("$v", "", <<"p", "q">>),
             St("$f", "wp", <<"wff", "p">>), St("$f", "wq", <<"wff", "q">>),
             St("${", "", <<>>), St("$e", "h", <<"wff", "q">>),
             St("$a", "a2", <<"wff", "p">>), St("$}", "", <<>>)>>
      [] fam = "splice" ->
           <<St("$c", "", <<"wff">>), St("$v", "", <<"p", "q">>),
             St("$f", "wp", <<"wff", "p">>), St("$f", "wq", <<"wff", "q">>),
             St("${", "", <<>>), St("$e", "h", <<"wff", "q">>),
             St("$a", "a2", <<"wff", "p">>), St("$}", "", <<>>),
             St("$a", "a1", <<"wff", "p", "q">>)>>
      [] fam = "disjoint" ->
           <<St("$c", "", <<"wff">>), St("$v", "", <<"p", "q">>),
             St("$f", "wp", <<"wff", "p">>), St("$f", "wq", <<"wff", "q">>),
             St("${", "", <<>>), St("$d", "", <<"p", "q">>),
             St("$a", "ax", <<"wff", "p", "q">>)>>
      [] fam = "nest" ->
           <<St("$c", "", <<"wff">>), St("$v", "", <<"p", "q">>),
             St("$f", "wp", <<"wff", "p">>), St("$e", "h", <<"wff", "p">>)>>
      [] fam = "refactor" ->
           <<St("$c", "", <<"wff", "n">>), St("$v", "", <<"p">>),
             St("$f", "wp", <<"wff", "p">>), St("$a", "wn", <<"wff", "n", "p">>)>>
      [] fam = "twice" ->
           <<St("$c", "", <<"wff", "n", "i">>), St("$v", "", <<"p", "q">>),
             St("$f", "wp", <<"wff", "p">>), St("$f", "wq", <<"wff", "q">>),
             St("$a", "wi", <<"wff", "i", "p", "q">>), St("$a", "wn", <<"wff", "n", "p">>)>>
      [] fam = "constant" ->
           <<St("$c", "", <<"wff", "n", "z">>), St("$v", "", <<"p">>),
             St("$f", "wp", <<"wff", "p">>), St("$a", "wn", <<"wff", "n", "p">>),
             St("$a", "c0", <<"wff", "z">>)>>
      [] fam = "hyps" ->
           <<St("$c", "", <<"A", "B", "C", "D">>),
             St("${", "", <<>>), St("$e", "x1", <<"A">>), St("$e", "x2", <<"B">>),
             St("$a", "ax2", <<"C">>), St("$}", "", <<>>),
             St("${", "", <<>>), St("$e", "z1", <<"B">>), St("$e", "z2", <<"A">>),
             St("$a", "ax3", <<"C">>), St("$}", "", <<>>),
             St("${", "", <<>>), St("$e", "y1", <<"C">>),
             St("$a", "ax1", <<"D">>), St("$}", "", <<>>),
             St("$e", "e1", <<"A">>), St("$e", "e2", <<"B">>)>>
      [] fam = "codes" ->
           <<St("$c", "", <<"wff">>), St("$v", "", <<"p", "q">>),
             St("$f", "wp", <<"wff", "p">>), St("$f", "wq", <<"wff", "q">>),
             St("$a", "ax", <<"wff", "p", "q">>)>>

\* the statements that may follow the opening
Menu(fam) ==
    CASE fam = "verify" ->
           {St("$d", "", <<"p", "q">>), St("$e", "h", <<"|-", "p">>),
            St("$a", "ax", <<"wff", "p", "q">>),
            St("$p", "th", <<"wff", "p", "q">>)}
      [] fam = "scope" ->
           {St("$c", "", <<"p">>), St("$v", "", <<"q">>),
            St("$f", "wp", <<"wff", "p">>), St("${", "", <<>>), St("$}", "", <<>>),
            St("$p", "th", <<"wff", "p">>)}
      [] fam = "expand" ->
           {St("$p", "th", <<"wff", "p">>), St("$p", "t2", <<"wff", "q">>),
            St("$p", "expandx", <<"wff", "p">>)}
      [] fam = "splice" ->
           {St("$p", "th", <<"wff", "p">>), St("$p", "t2", <<"wff", "p", "q">>)}
      [] fam = "disjoint" ->
           {St("$}", "", <<>>), St("$p", "th", <<"wff", "p", "q">>)}
      [] fam = "nest" ->
           {St("${", "", <<>>), St("$}", "", <<>>), St("$f", "w2", <<"wff", "p">>),
            St("$f", "wq", <<"wff", "q">>), St("$e", "h2", <<"wff", "p">>),
            St("$d", "", <<"p", "q">>), St("$a", "ax", <<"wff", "p", "q">>)}
      [] fam = "codes" -> {}
      [] fam = "refactor" ->
           {St("$p", "new_theorem_0", <<"wff", "n", "n", "p">>),
            St("$p", "th", <<"wff", "n", "n", "n", "p">>)}
      [] fam = "hyps" ->
           {St("$p", "new_theorem_0", <<"D">>), St("$p", "th", <<"D">>)}
      [] fam = "constant" ->
           {St("$p", "new_theorem_0", <<"wff", "n", "n", "z">>),
            St("$p", "th", <<"wff", "n", "n", "n", "z">>)}
      [] fam = "twice" ->
           {St("$p", "new_theorem_0", <<"wff", "n", "i", "p", "p">>),
            St("$p", "th", <<"wff", "n", "i", "p", "q">>),
            St("$p", "t2", <<"wff", "n", "i", "q", "q">>)}

\* (threshold, raw_proof_max_length) the MM object is constructed with:
\* MM(0, -1) in theorem_refactor.py, the argument defaults (-1, 1000) in
\* theorem_expansion.py
Config(fam) == IF fam \in {"verify"} \cup RefactorFamilies THEN <<0, -1>> ELSE <<-1, 1000>>

\* the number of statements of the menu a database of the family has at most
Budget(fam) == IF fam \in {"expand", "splice"} \cup RefactorFamilies THEN MaxThms ELSE MaxStmts

\* the driver calls verify_custom after read (theorem_refactor.py,
\* theorem_verification.py)
CallsAfterRead(fam) == fam = "verify"

\* the labels a proof may name ("zz" is bound by no statement)
ProofLabels(fam) ==
    CASE fam = "verify" -> {"wp", "wq", "h", "ax", "th", "zz"}
      [] fam = "scope" -> {"wp", "th", "zz"}
      [] fam = "expand" -> {"wp", "wq", "a2", "th", "t2"}
      [] fam = "splice" -> {"wp", "wq", "a2", "a1", "th"}
      [] fam = "disjoint" -> {"wp", "wq", "ax"}
      [] fam = "refactor" -> {"wp", "wn", "th", "new_theorem_0"}
      [] fam = "hyps" -> {"e1", "e2", "ax1", "ax2", "ax3", "th", "new_theorem_0"}
      [] fam = "twice" -> {"wp", "wq", "wi", "wn", "new_theorem_0"}
      [] fam = "constant" -> {"c0", "wn", "new_theorem_0"}

\* the statements a call from outside read is asked to verify
CallStats == {<<"wff", "p", "q">>, <<"wff", "p", "p">>}

(***************************************************************************)
(* Frame, FrameStack                                                        *)
(***************************************************************************)
EmptyMap == [x \in {} |-> x]

\* Frame.__init__
Frame == [c |-> {}, v |-> {}, d |-> {}, f |-> <<>>, f_labels |-> EmptyMap,
          e |-> <<>>, e_labels |-> EmptyMap]

\* the tokens in the order Python compares them as strings (min, max of add_d)
TokOrder == <<"p", "q", "wff", "|-">>
Rank(tok) == CHOOSE i \in 1..Len(TokOrder) : TokOrder[i] = tok
Min2(x, y) == IF Rank(x) <= Rank(y) THEN x ELSE y
Max2(x, y) == IF Rank(x) <= Rank(y) THEN y ELSE x

\* FrameStack.lookup_c
lookup_c(fstack, tok) == \E i \in 1..Len(fstack) : tok \in fstack[i].c

\* FrameStack.lookup_v
lookup_v(fstack, tok) == \E i \in 1..Len(fstack) : tok \in fstack[i].v

\* FrameStack.lookup_d
lookup_d(fstack, x, y) ==
    \E i \in 1..Len(fstack) : <<Min2(x, y), Max2(x, y)>> \in fstack[i].d

RECURSIVE lookup_f_from(_, _, _)
\* the loop `for frame in reversed(self)` of lookup_f from frame i outwards:
\* [ok, label]; ok is FALSE for MMKeyError
lookup_f_from(fstack, i, var) ==
    IF i = 0 THEN [ok |-> FALSE, label |-> ""]
    ELSE IF var \in DOMAIN fstack[i].f_labels
         THEN [ok |-> TRUE, label |-> fstack[i].f_labels[var]]
         ELSE lookup_f_from(fstack, i - 1, var)

RECURSIVE lookup_f_outermost(_, _)
\* a lookup that scans the frames outermost first
lookup_f_outermost(fstack, var) ==
    IF fstack = <<>> THEN [ok |-> FALSE, label |-> ""]
    ELSE IF var \in DOMAIN Head(fstack).f_labels
         THEN [ok |-> TRUE, label |-> Head(fstack).f_labels[var]]
         ELSE lookup_f_outermost(Tail(fstack), var)

\* FrameStack.lookup_f
lookup_f(fstack, var) == lookup_f_from(fstack, Len(fstack), var)

RECURSIVE lookup_e_from(_, _, _)
\* the loop `for frame in reversed(self)` of lookup_e from frame i outwards
lookup_e_from(fstack, i, stmt) ==
    IF i = 0 THEN [ok |-> FALSE, label |-> ""]
    ELSE IF stmt \in DOMAIN fstack[i].e_labels
         THEN [ok |-> TRUE, label |-> fstack[i].e_labels[stmt]]
         ELSE lookup_e_from(fstack, i - 1, stmt)

\* FrameStack.lookup_e
lookup_e(fstack, stmt) == lookup_e_from(fstack, Len(fstack), stmt)

\* the innermost frame replaced by fr
SetTop(fstack, fr) == [fstack EXCEPT ![Len(fstack)] = fr]
Top(fstack) == fstack[Len(fstack)]

\* FrameStack.push
push(fstack) == Append(fstack, Frame)

\* FrameStack.add_c: [ok, fs]; only the innermost frame is consulted
add_c(fstack, tok) ==
    LET frame == Top(fstack) IN
    IF tok \in frame.c THEN [ok |-> FALSE, fs |-> fstack]
    ELSE IF tok \in frame.v THEN [ok |-> FALSE, fs |-> fstack]
    ELSE [ok |-> TRUE, fs |-> SetTop(fstack, [frame EXCEPT !.c = @ \cup {tok}])]

\* FrameStack.add_v: [ok, fs]; only the innermost frame is consulted
add_v(fstack, tok) ==
    LET frame == Top(fstack) IN
    IF tok \in frame.v THEN [ok |-> FALSE, fs |-> fstack]
    ELSE IF tok \in frame.c THEN [ok |-> FALSE, fs |-> fstack]
    ELSE [ok |-> TRUE, fs |-> SetTop(fstack, [frame EXCEPT !.v = @ \cup {tok}])]

\* FrameStack.add_f: [ok, fs]
add_f(fstack, var, kind, label) ==
    LET frame == Top(fstack) IN
    IF ~lookup_v(fstack, var) THEN [ok |-> FALSE, fs |-> fstack]
    ELSE IF ~lookup_c(fstack, kind) THEN [ok |-> FALSE, fs |-> fstack]
    ELSE IF var \in DOMAIN frame.f_labels THEN [ok |-> FALSE, fs |-> fstack]
    ELSE [ok |-> TRUE,
          fs |-> SetTop(fstack, [frame EXCEPT !.f = Append(@, <<var, kind>>),
                                              !.f_labels = (var :> label) @@ @])]

\* FrameStack.add_e
add_e(fstack, stat, label) ==
    LET frame == Top(fstack) IN
    SetTop(fstack, [frame EXCEPT !.e = Append(@, stat),
                                 !.e_labels = (stat :> label) @@ @])

\* FrameStack.add_d
add_d(fstack, stat) ==
    LET frame == Top(fstack)
        toks == {stat[i] : i \in 1..Len(stat)}
    IN SetTop(fstack, [frame EXCEPT !.d = @ \cup
           {<<Min2(x, y), Max2(x, y)>> : <<x, y>> \in {pr \in toks \X toks : pr[1] # pr[2]}}])

\* the tokens of a statement, as a set
TokSet(stat) == {stat[i] : i \in 1..Len(stat)}

RECURSIVE Flatten(_)
\* the concatenation of a sequence of sequences
Flatten(ss) == IF ss = <<>> THEN <<>> ELSE Head(ss) \o Flatten(Tail(ss))

RECURSIVE f_hyps_all(_, _, _)
\* a scan that takes every $f of a mandatory variable, the ones of outer
\* frames too
f_hyps_all(F, i, mand_vars) ==
    IF i = 0 THEN <<>>
    ELSE IF F[i][1] \in mand_vars
         THEN Append(f_hyps_all(F, i - 1, mand_vars), <<F[i][2], F[i][1]>>)
         ELSE f_hyps_all(F, i - 1, mand_vars)

RECURSIVE f_hyps_from(_, _, _)
\* the loop of make_assertion over reversed(self), reversed(fr.f): F is the
\* $f entries <<var, kind>> of the chain outermost first, scanned from its end
f_hyps_from(F, i, mand_vars) ==
    IF i = 0 THEN <<>>
    ELSE IF F[i][1] \in mand_vars
         THEN Append(f_hyps_from(F, i - 1, mand_vars \ {F[i][1]}), <<F[i][2], F[i][1]>>)
         ELSE f_hyps_from(F, i - 1, mand_vars)

\* FrameStack.make_assertion: (dvs, f_hyps, e_hyps, stat)
make_assertion(fstack, stat) ==
    LET e_hyps == Flatten([i \in 1..Len(fstack) |-> fstack[i].e])
        mand_vars == {tok \in UNION ({TokSet(e_hyps[i]) : i \in 1..Len(e_hyps)} \cup {TokSet(stat)}) :
                         lookup_v(fstack, tok)}
        dvs == UNION {{pr \in fstack[i].d : pr[1] \in mand_vars /\ pr[2] \in mand_vars} :
                         i \in 1..Len(fstack)}
        F == Flatten([i \in 1..Len(fstack) |-> fstack[i].f])
    IN [dvs |-> dvs, f_hyps |-> f_hyps_from(F, Len(F), mand_vars),
        e_hyps |-> e_hyps, stat |-> stat]

(***************************************************************************)
(* Label table entries and ProofNode                                        *)
(***************************************************************************)
\* the value MM.labels binds to a $f or $e label: (kind, token list); the
\* token list is kept in field stat
HypEntry(typ, stat) ==
    [typ |-> typ, dvs |-> {}, f_hyps |-> <<>>, e_hyps |-> <<>>, stat |-> stat]

\* the value MM.labels binds to a $a or $p label: (kind, (dvs, f_hyps, e_hyps, stat))
AssEntry(typ, a) ==
    [typ |-> typ, dvs |-> a.dvs, f_hyps |-> a.f_hyps, e_hyps |-> a.e_hyps, stat |-> a.stat]

\* the data half of a label table entry
DataOf(entry) ==
    [dvs |-> entry.dvs, f_hyps |-> entry.f_hyps, e_hyps |-> entry.e_hyps, stat |-> entry.stat]

\* ProofNode.__init__
ProofNode(label, type, data) ==
    [label |-> label, type |-> type, data |-> data, name |-> <<>>, expr |-> <<>>,
     mand_vars |-> <<>>, hps |-> <<>>, subst |-> FALSE]

RECURSIVE summarize_proof(_)
\* a summary that names the node before its children
summarize_proof_label_first(node) ==
    <<node.label>>
    \o Flatten([i \in 1..Len(node.mand_vars) |-> summarize_proof(node.mand_vars[i])])
    \o Flatten([i \in 1..Len(node.hps) |-> summarize_proof(node.hps[i])])

\* ProofNode.summarize_proof
summarize_proof(node) ==
    Flatten([i \in 1..Len(node.mand_vars) |-> summarize_proof(node.mand_vars[i])])
    \o Flatten([i \in 1..Len(node.hps) |-> summarize_proof(node.hps[i])])
    \o <<node.label>>

(***************************************************************************)
(* Proof names.  A name is the list of the pieces it is formatted from:     *)
(* <<>> is '', <<l>> is the label l, <<"expand_", X, "_in_", T>> is          *)
(* 'expand_{X}_in_{T}'.                                                     *)
(***************************************************************************)
\* the labels of the alphabet that contain the substring 'expand'
ExpandSpelled == {"expandx"}

\* 'expand' in name
HasExpand(name) == Len(name) > 1 \/ (Len(name) = 1 /\ name[1] \in ExpandSpelled)

\* "expand_{}_in_{}".format(expanded_label, name)
ExpandName(expanded_label, name) == <<"expand_", expanded_label, "_in_">> \o name

(***************************************************************************)
(* The stack machine: one label of the loop of MM.verify_custom             *)
(***************************************************************************)
\* MM.apply_subst
apply_subst(stat, subst) ==
    Flatten([i \in 1..Len(stat) |->
                IF stat[i] \in DOMAIN subst THEN subst[stat[i]] ELSE <<stat[i]>>])

\* MM.find_vars: the distinct variables of stat (their order is not used)
find_vars(fstack, stat) == {x \in TokSet(stat) : lookup_v(fstack, x)}

\* the proof-replay violations, which strict mode raises as MMError and probe
\* mode returns as (False, ...)
ReplayErrors == {"StackUnderflow", "TypeMismatch", "DisjointViolation",
                 "HypothesisMismatch", "StackNotSingleton", "ConclusionMismatch"}

\* the test of a pair with the declared disjointness looked up under every name
DisjointStops_any_name(fstack, x_vars, y_vars, mode, name) ==
    IF mode = "error"
    THEN \E a \in x_vars, b \in y_vars : a = b \/ ~lookup_d(fstack, a, b)
    ELSE x_vars # {} /\ y_vars # {}

\* the test of one pair of the inner loop `for x, y in product(x_vars, y_vars)`
\* of the disjointness check: does the loop stop the verification
DisjointStops(fstack, x_vars, y_vars, mode, name) ==
    IF mode = "error"
    THEN IF name = <<>> \/ HasExpand(name)
         THEN \E a \in x_vars, b \in y_vars : a = b
         ELSE \E a \in x_vars, b \in y_vars : a = b \/ ~lookup_d(fstack, a, b)
    ELSE x_vars # {} /\ y_vars # {}

\* the loop `for x, y in distinct`: the errors it can end with ("" for none).
\* distinct is a set, iterated in no fixed order: the first pair that stops
\* the loop decides, and any stopping pair can be the first
DisjointCheck(fstack, distinct, subst, mode, name) ==
    LET stops == {pr \in distinct :
                     \/ pr[1] \notin DOMAIN subst
                     \/ pr[2] \notin DOMAIN subst
                     \/ DisjointStops(fstack, find_vars(fstack, subst[pr[1]]),
                                      find_vars(fstack, subst[pr[2]]), mode, name)}
    IN IF stops = {} THEN {""}
       ELSE {IF pr[1] \notin DOMAIN subst \/ pr[2] \notin DOMAIN subst
             THEN "KeyError" ELSE "DisjointViolation" : pr \in stops}

\* the result of one label: err is "" or the failure, stack the new stack,
\* dp the increment of proof_count
StepResult(err, stack, dp) == [err |-> err, stack |-> stack, dp |-> dp]

\* a comparison that accepts every operand
Matches_anything(entry, subst_h) == TRUE

\* `entry != subst_h` negated (line 878): the expr of the operand is the
\* hypothesis with the substitution applied
Matches(entry, subst_h) == entry = subst_h

\* a step that pushes its node without removing its operands
Reduce_keep_operands(stack, sp, node) == Append(stack, node)

\* `del stack[n_sp:]` and `stack.append(proof_node)` (lines 887-889, 930): the
\* nodes from position sp + 1 on are replaced by node
Reduce(stack, sp, node) == Append(SubSeq(stack, 1, sp), node)

\* the $a/$p branch of the loop body (lines 826-930 without the expansion)
StepAssertion(fstack, stack, label, entry, mode, name) ==
    LET mand_var == entry.f_hyps
        hyp == entry.e_hyps
        npop == Len(mand_var) + Len(hyp)
        sp == Len(stack) - npop
    IN
    IF sp < 0 THEN {StepResult("StackUnderflow", stack, 0)}
    ELSE
    LET nv == Len(mand_var)
        varNode(i) == stack[sp + i]
        hypNode(j) == stack[sp + nv + j]
        bad == {i \in 1..nv : varNode(i).expr = <<>> \/ Head(varNode(i).expr) # mand_var[i][1]}
        firstBad == CHOOSE i \in bad : \A k \in bad : i <= k
        subst == [v \in {mand_var[i][2] : i \in 1..nv} |->
                     Tail(varNode(CHOOSE i \in 1..nv :
                            /\ mand_var[i][2] = v
                            /\ \A k \in 1..nv : mand_var[k][2] = v => k <= i).expr)]
        badHyp == {j \in 1..Len(hyp) : ~Matches(hypNode(j).expr, apply_subst(hyp[j], subst))}
        node == [ProofNode(label, entry.typ, DataOf(entry)) EXCEPT
                    !.mand_vars = [i \in 1..nv |-> varNode(i)],
                    !.hps = [j \in 1..Len(hyp) |-> hypNode(j)],
                    !.expr = apply_subst(entry.stat, subst)]
    IN
    IF bad # {}
    THEN {StepResult(IF varNode(firstBad).expr = <<>> THEN "IndexError" ELSE "TypeMismatch",
                     stack, 0)}
    ELSE {IF d # "" THEN StepResult(d, stack, 0)
          ELSE IF badHyp # {} THEN StepResult("HypothesisMismatch", stack, 0)
          ELSE StepResult("", Reduce(stack, sp, node),
                          IF entry.typ = "$p" THEN 1 ELSE 0)
            : d \in DisjointCheck(fstack, entry.dvs, subst, mode, name)}

\* the $e/$f branch of the loop body (lines 932-935)
StepHypothesis(stack, label, entry) ==
    {StepResult("", Append(stack, [ProofNode(label, entry.typ, DataOf(entry)) EXCEPT
                                      !.expr = entry.stat]), 0)}

\* one iteration of `for label in proof` (lines 821-937, num_expand = 0): the
\* set of its possible results
StepLabel(lbls, fstack, stack, label, mode, name) ==
    IF label \notin DOMAIN lbls THEN {StepResult("KeyError", stack, 0)}
    ELSE IF lbls[label].typ \in {"$a", "$p"}
         THEN StepAssertion(fstack, stack, label, lbls[label], mode, name)
         ELSE StepHypothesis(stack, label, lbls[label])

\* an end of verify_custom that does not compare the proved expression
Conclude_any_expr(stack, stat) ==
    IF stack = <<>> THEN "IndexError"
    ELSE IF Len(stack) # 1 THEN "StackNotSingleton"
    ELSE ""

\* the end of verify_custom (lines 938-948): the failure the final stack and
\* stat give, "" for none
Conclude(stack, stat) ==
    IF stack = <<>> THEN "IndexError"
    ELSE IF Len(stack) # 1 THEN "StackNotSingleton"
    ELSE IF stack[1].expr # stat THEN "ConclusionMismatch"
    ELSE ""

(***************************************************************************)
(* Whole runs of the loop, for the calls verify_custom makes of itself and  *)
(* of propagate                                                             *)
(***************************************************************************)
RECURSIVE RunLabels(_, _, _, _, _, _, _, _)
\* `for label in proof` from position k on (num_expand = 0): the set of
\* [err, stack, proof_count] the loop can end with
RunLabels(lbls, fstack, stack, proof, k, mode, name, proof_count) ==
    IF k > Len(proof)
    THEN {[err |-> "", stack |-> stack, proof_count |-> proof_count]}
    ELSE UNION {IF o.err # ""
                THEN {[err |-> o.err, stack |-> stack, proof_count |-> proof_count]}
                ELSE RunLabels(lbls, fstack, o.stack, proof, k + 1, mode, name,
                               proof_count + o.dp)
                  : o \in StepLabel(lbls, fstack, stack, proof[k], mode, name)}

\* verify_custom(stat, proof, name, mode) with num_expand = 0 as a function:
\* the set of [err, stack, proof_count] it can end with; err is "" when it
\* returns (True, stack[0])
RunVerify(lbls, fstack, stat, proof, mode, name) ==
    IF proof = <<>> THEN {[err |-> "IndexError", stack |-> <<>>, proof_count |-> 0]}
    ELSE {IF r.err # "" THEN r
          ELSE IF Conclude(r.stack, stat) # "" THEN [r EXCEPT !.err = Conclude(r.stack, stat)]
          ELSE IF name # <<>> /\ summarize_proof(r.stack[1]) # proof
               THEN [r EXCEPT !.err = "AssertionError"]
          ELSE [r EXCEPT !.stack = <<[r.stack[1] EXCEPT !.name = name]>>]
            : r \in RunLabels(lbls, fstack, <<>>, proof, 1, mode, name, 0)}

\* MM.propagate(proof, name): the set of [err, stack] it can end with; its
\* disjointness test is `x == y`, that of strict mode with an empty name
propagate(lbls, fstack, proof, name) ==
    {IF r.err # "" THEN r
     ELSE IF r.stack = <<>> THEN [r EXCEPT !.err = "IndexError"]
     ELSE IF Len(r.stack) # 1 THEN [r EXCEPT !.err = "StackNotSingleton"]
     ELSE IF summarize_proof(r.stack[1]) # proof THEN [r EXCEPT !.err = "AssertionError"]
     ELSE [r EXCEPT !.stack = <<[r.stack[1] EXCEPT !.name = name]>>]
       : r \in RunLabels(lbls, fstack, <<>>, proof, 1, "error", <<>>, 0)}

(***************************************************************************)
(* ProofNode: the tree operations the expansion uses                        *)
(***************************************************************************)
\* `node.mand_vars == [] and node.hps == []`
IsLeaf(node) == node.mand_vars = <<>> /\ node.hps = <<>>

\* the children of a node in the order every traversal takes them: mand_vars,
\* then hps
Children(node) == node.mand_vars \o node.hps

RECURSIVE color_all(_)
\* ProofNode.color_all
color_all(node) ==
    [node EXCEPT !.subst = TRUE,
                 !.mand_vars = [i \in 1..Len(node.mand_vars) |-> color_all(node.mand_vars[i])],
                 !.hps = [i \in 1..Len(node.hps) |-> color_all(node.hps[i])]]

RECURSIVE get_leaves_hypotheses(_)
\* a get_leaves that passes over the childless steps that are no hypotheses
get_leaves_hypotheses(node) ==
    LET below(ch) == IF IsLeaf(ch)
                     THEN IF ch.type \in {"$e", "$f"} THEN <<ch>> ELSE <<>>
                     ELSE get_leaves_hypotheses(ch)
    IN Flatten([i \in 1..Len(node.mand_vars) |-> below(node.mand_vars[i])])
       \o Flatten([i \in 1..Len(node.hps) |-> below(node.hps[i])])

RECURSIVE get_leaves(_)
\* ProofNode.get_leaves (change_type = False): the leaves below node, left to
\* right; a node without children has none below it
get_leaves(node) ==
    LET below(ch) == IF IsLeaf(ch) THEN <<ch>> ELSE get_leaves(ch)
    IN Flatten([i \in 1..Len(node.mand_vars) |-> below(node.mand_vars[i])])
       \o Flatten([i \in 1..Len(node.hps) |-> below(node.hps[i])])

RECURSIVE expand_proof(_, _)
\* ProofNode.expand_proof: every leaf child whose expr is a key of subst is
\* replaced by a flagged copy of the node subst binds to it
expand_proof(node, subst) ==
    LET put(ch) == IF IsLeaf(ch)
                   THEN IF ch.expr \in DOMAIN subst
                        THEN [subst[ch.expr] EXCEPT !.subst = TRUE]
                        ELSE ch
                   ELSE expand_proof(ch, subst)
    IN [node EXCEPT !.mand_vars = [i \in 1..Len(node.mand_vars) |-> put(node.mand_vars[i])],
                    !.hps = [i \in 1..Len(node.hps) |-> put(node.hps[i])]]

\* the flag of the root alone is taken, the children keep theirs
copy_subst_root_only(self, node) == [self EXCEPT !.subst = node.subst]

RECURSIVE copy_subst_from_node(_, _)
\* ProofNode.copy_subst_from_node: self takes the flags of node, position by
\* position (zip stops at the shorter list)
copy_subst_from_node(self, node) ==
    LET zip(mine, theirs) ==
            [i \in 1..Len(mine) |-> IF i <= Len(theirs)
                                    THEN copy_subst_from_node(mine[i], theirs[i])
                                    ELSE mine[i]]
    IN [self EXCEPT !.subst = node.subst,
                    !.mand_vars = zip(self.mand_vars, node.mand_vars),
                    !.hps = zip(self.hps, node.hps)]

(***************************************************************************)
(* MM.avoid_conflict over the leaves of a copied proof tree.  The copy      *)
(* keeps the sharing of the original: every $f leaf of one label holds the   *)
(* same expr list (the one of the label table entry), so node.expr[1] =      *)
(* new_label changes the expr of all of them at once.                        *)
(***************************************************************************)
\* 'sub{0}'.format(len(replace_dict))
SubNames == <<"sub0", "sub1", "sub2">>

\* self.labels[label] = entry
Bind(lbls, label, entry) == (label :> entry) @@ lbls

\* the body of the loop for one leaf; acs is [rd, lbls]: replace_dict
\* (original label -> <<new label, expr>>) and self.labels
AvoidLeaf(node, acs, reserved_labels, keys) ==
    LET shared == node.type = "$f" /\ node.label \in DOMAIN acs.rd
        expr == IF shared THEN acs.rd[node.label][2] ELSE node.expr
        seen == [node EXCEPT !.expr = expr,
                             !.data = IF shared THEN [node.data EXCEPT !.stat = expr]
                                      ELSE node.data]
    IN
    IF keys # {} /\ expr \notin keys /\ node.type = "$f" /\ node.label \in reserved_labels
    THEN IF node.label \notin DOMAIN acs.rd
         THEN LET new_label == SubNames[Cardinality(DOMAIN acs.rd) + 1]
                  new_expr == <<expr[1], new_label>>
              IN [node |-> [node EXCEPT !.label = new_label, !.expr = new_expr,
                                        !.data = [node.data EXCEPT !.stat = new_expr]],
                  acs |-> [rd |-> (node.label :> <<new_label, new_expr>>) @@ acs.rd,
                           lbls |-> Bind(acs.lbls, new_label,
                                         [typ |-> "$f", dvs |-> {}, f_hyps |-> <<>>,
                                          e_hyps |-> <<>>, stat |-> new_expr])]]
         ELSE [node |-> [node EXCEPT !.label = acs.rd[node.label][1],
                                     !.expr = acs.rd[node.label][2],
                                     !.data = [node.data EXCEPT !.stat = acs.rd[node.label][2]]],
               acs |-> acs]
    ELSE [node |-> seen, acs |-> acs]

RECURSIVE AvoidTree(_, _, _, _)
RECURSIVE AvoidSeq(_, _, _, _)
\* the loop `for node in leaves` over the leaves below node, in the order of
\* get_leaves: the tree after it, and [rd, lbls] after it
AvoidTree(node, acs, reserved_labels, keys) ==
    LET r1 == AvoidSeq(node.mand_vars, acs, reserved_labels, keys)
        r2 == AvoidSeq(node.hps, r1.acs, reserved_labels, keys)
    IN [node |-> [node EXCEPT !.mand_vars = r1.nodes, !.hps = r2.nodes], acs |-> r2.acs]

\* the same over a list of children
AvoidSeq(nodes, acs, reserved_labels, keys) ==
    IF nodes = <<>> THEN [nodes |-> <<>>, acs |-> acs]
    ELSE LET h == Head(nodes)
             rh == IF IsLeaf(h) THEN AvoidLeaf(h, acs, reserved_labels, keys)
                   ELSE AvoidTree(h, acs, reserved_labels, keys)
             rt == AvoidSeq(Tail(nodes), rh.acs, reserved_labels, keys)
         IN [nodes |-> <<rh.node>> \o rt.nodes, acs |-> rt.acs]

\* MM.avoid_conflict(leaves, reserved_labels, expand_subst) on the leaves of
\* expand_node
avoid_conflict(lbls, expand_node, reserved_labels, expand_subst) ==
    AvoidTree(expand_node, [rd |-> [x \in {} |-> x], lbls |-> lbls], reserved_labels,
              DOMAIN expand_subst)

(***************************************************************************)
(* verify_custom(stat, proof, name, num_expand=1): one pass `for i in       *)
(* range(times)` of the loop, which expands the (i+1)-th $p step             *)
(***************************************************************************)
\* the labels the expansion never expands (line 897)
Excluded == {"dummylink", "idi", "iin1", "iin3"}

\* self.proofs after the store of lines 958-965; an entry is [single, roots]:
\* one tree, or the list of trees kept under a name that contains 'expand'
StoreProof(prfs, name, root) ==
    IF HasExpand(name) /\ name \notin DOMAIN prfs
    THEN (name :> [single |-> FALSE, roots |-> <<root>>]) @@ prfs
    ELSE IF HasExpand(name)
    THEN (name :> [single |-> prfs[name].single, roots |-> Append(prfs[name].roots, root)]) @@ prfs
    ELSE (name :> [single |-> TRUE, roots |-> <<root>>]) @@ prfs

\* the dict expand_subst of lines 902-908: the keys (k, v) of mand_var and
\* tuple(h) of hyp, a later assignment replacing an earlier one
ExpandSubst(proof_node) ==
    LET mand_var == proof_node.data.f_hyps
        hyp == proof_node.data.e_hyps
        last(seq, key) == CHOOSE i \in 1..Len(seq) :
                             seq[i] = key /\ \A k \in 1..Len(seq) : seq[k] = key => k <= i
    IN [key \in {mand_var[i] : i \in 1..Len(mand_var)} \cup {hyp[j] : j \in 1..Len(hyp)} |->
           IF \E j \in 1..Len(hyp) : hyp[j] = key
           THEN proof_node.hps[last(hyp, key)]
           ELSE proof_node.mand_vars[last(mand_var, key)]]

\* lines 900-901 with the copy left out: the stored tree itself is coloured
CopyAndColor_in_place(tree) == [stored |-> color_all(tree), expand_node |-> color_all(tree)]

\* `expand_node = copy.deepcopy(self.proofs[label])`, `expand_node.color_all()`
\* (lines 900-901): the tree self.proofs[label] holds after the two lines,
\* and expand_node
CopyAndColor(tree) == [stored |-> tree, expand_node |-> color_all(tree)]

\* self.proofs with the tree of label being tree
Holding(prfs, label, tree) == (<<label>> :> [single |-> TRUE, roots |-> <<tree>>]) @@ prfs

\* lines 900-925: the step proof_node of label `label` is replaced by the
\* stored proof of label, instantiated.  The set of [err, node, lbls, prfs]
ExpandAt(lbls, fstack, prfs, label, proof_node) ==
    IF ~prfs[<<label>>].single
    THEN {[err |-> "AttributeError", node |-> proof_node, lbls |-> lbls, prfs |-> prfs]}
    ELSE
    LET cc == CopyAndColor(prfs[<<label>>].roots[1])
        expand_node == cc.expand_node
        after == Holding(prfs, label, cc.stored)
        expand_subst == ExpandSubst(proof_node)
        reserved_labels == UNION {TokSet(summarize_proof(expand_subst[key])) :
                                     key \in DOMAIN expand_subst}
        proof_1 == summarize_proof(expand_node)
        ac == avoid_conflict(lbls, expand_node, reserved_labels, expand_subst)
        proof_2 == summarize_proof(ac.node)
        rebuilt == IF proof_1 # proof_2
                   THEN propagate(ac.acs.lbls, fstack, proof_2, <<label>>)
                   ELSE {[err |-> "", stack |-> <<ac.node>>, proof_count |-> 0]}
    IN UNION {IF pr.err # ""
              THEN {[err |-> pr.err, node |-> proof_node, lbls |-> ac.acs.lbls,
                     prfs |-> after]}
              ELSE LET expanded == expand_proof(color_all(pr.stack[1]), expand_subst)
                   IN {IF inner.err # ""
                       THEN [err |-> inner.err, node |-> proof_node, lbls |-> ac.acs.lbls,
                             prfs |-> after]
                       ELSE [err |-> "",
                             node |-> copy_subst_from_node(inner.stack[1], expanded),
                             lbls |-> ac.acs.lbls, prfs |-> after]
                         : inner \in RunVerify(ac.acs.lbls, fstack, proof_node.expr,
                                               summarize_proof(expanded), "error", <<>>)}
                : pr \in rebuilt}

RECURSIVE PassLabels(_, _, _, _, _, _, _, _)
\* `for label in proof` of pass i from position k on; st is [lbls, stack,
\* proof_count, num_expand, expanded_label, prfs], prfs being self.proofs.  The
\* set of [err, st]
PassLabels(fstack, prfs, rpm, proof, name, i, k, st) ==
    IF k > Len(proof) THEN {[err |-> "", st |-> st]}
    ELSE
    LET label == proof[k] IN
    UNION {
      IF o.err # "" THEN {[err |-> o.err, st |-> st]}
      ELSE
      LET proof_node == o.stack[Len(o.stack)]
          proof_count == st.proof_count + o.dp
          isStep == st.num_expand > 0 /\ proof_node.type = "$p" /\ proof_count - 1 = i
      IN
      IF isStep /\ <<label>> \notin DOMAIN prfs
      THEN {[err |-> "KeyError", st |-> st]}
      ELSE IF isStep /\ ~prfs[<<label>>].single
      THEN {[err |-> "AttributeError", st |-> st]}
      ELSE IF /\ isStep
              /\ Len(summarize_proof(prfs[<<label>>].roots[1])) <= rpm
              /\ label \notin Excluded
      THEN UNION {IF x.err # ""
                  THEN {[err |-> x.err, st |-> [st EXCEPT !.lbls = x.lbls, !.prfs = x.prfs]]}
                  ELSE PassLabels(fstack, prfs, rpm, proof, name, i, k + 1,
                                  [lbls |-> x.lbls,
                                   stack |-> Append(SubSeq(o.stack, 1, Len(o.stack) - 1), x.node),
                                   proof_count |-> proof_count,
                                   num_expand |-> st.num_expand - 1,
                                   expanded_label |-> label,
                                   prfs |-> x.prfs])
                    : x \in ExpandAt(st.lbls, fstack, prfs, label, proof_node)}
      ELSE PassLabels(fstack, prfs, rpm, proof, name, i, k + 1,
                      [st EXCEPT !.stack = o.stack, !.proof_count = proof_count])
        : o \in StepLabel(st.lbls, fstack, st.stack, label, "error", name)}

\* pass i as a whole (lines 816-967): the set of [err, lbls, prfs] it can
\* end with
ExpandPassOutcomes(lbls, fstack, prfs, rpm, stat, proof, name, i) ==
    UNION {
      IF r.err # "" THEN {[err |-> r.err, lbls |-> r.st.lbls, prfs |-> r.st.prfs]}
      ELSE IF Conclude(r.st.stack, stat) # ""
      THEN {[err |-> Conclude(r.st.stack, stat), lbls |-> r.st.lbls, prfs |-> r.st.prfs]}
      ELSE
      LET root == [r.st.stack[1] EXCEPT !.name = name] IN
      IF r.st.expanded_label # ""
      THEN {IF again.err # ""
            THEN [err |-> again.err, lbls |-> r.st.lbls, prfs |-> r.st.prfs]
            ELSE [err |-> "", lbls |-> r.st.lbls,
                  prfs |-> StoreProof(r.st.prfs, ExpandName(r.st.expanded_label, name),
                                      copy_subst_from_node(again.stack[1], root))]
              : again \in RunVerify(r.st.lbls, fstack, stat, summarize_proof(root), "error",
                                    ExpandName(r.st.expanded_label, name))}
      ELSE IF summarize_proof(root) # proof
      THEN {[err |-> "AssertionError", lbls |-> r.st.lbls, prfs |-> r.st.prfs]}
      ELSE {[err |-> "", lbls |-> r.st.lbls, prfs |-> StoreProof(r.st.prfs, name, root)]}
        : r \in PassLabels(fstack, prfs, rpm, proof, name, i, 1,
                           [lbls |-> lbls, stack |-> <<>>, proof_count |-> 0,
                            num_expand |-> 1, expanded_label |-> "", prfs |-> prfs])}

(***************************************************************************)
(* State                                                                    *)
(***************************************************************************)
VARIABLES
    fs,                     \* MM.fs, the FrameStack (outermost frame first)
    labels,                 \* MM.labels: label -> entry
    proofs,                 \* MM.proofs: name -> [single, roots]
    current_subproof_count, \* MM.current_subproof_count (NoCount for None)
    threshold,              \* MM.threshold
    raw_proof_max_length,   \* MM.raw_proof_max_length
    fam,                    \* the family of the database being read
    pos,                    \* number of statements of the opening read so far
    nstmt,                  \* number of statements read after the opening
    rd,                     \* MM.read: "init", "reading", "done" (returned), "failed" (raised)
    err,                    \* the exception that ended MM.read ("" for none)
    cur,                    \* the $p statement MM.read is handling
    vc,                     \* the running activation of verify_custom
    call,                   \* the last call of verify_custom made from outside read
    boundNow,               \* history: the labels bound since the statement being
                            \* handled was read
    dec,                    \* the last run of line 813 of verify_custom on a proof
                            \* read from the input (decompress_proof)
    tk,                     \* the token source: a toks object and the files it reads
    tr,                     \* the ProofNode tree a tree operation is run on, with
                            \* the operation's other arguments and its result
    rf                      \* the run of refactor_all(mm)

vars == <<fs, labels, proofs, current_subproof_count, threshold, raw_proof_max_length,
          fam, pos, nstmt, rd, err, cur, vc, call, boundNow, dec, tk, tr, rf>>

\* what no step of MM.read or of a call of verify_custom changes: the fields
\* of MM that are set by the constructor only, the input family, and the
\* records of decompress_proof, of the token source, of the tree operations
\* and of refactor_all, which are followed on their own (SpecDecompress,
\* SpecToks, SpecTrees, SpecRefactor)
setup == <<threshold, raw_proof_max_length, fam, dec, tk, tr, rf>>

\* None, the value of current_subproof_count MM.__init__ leaves
NoCount == -1

\* no $p statement is being handled
CurIdle == [phase |-> "idle", label |-> "", ass |-> make_assertion(<<>>, <<>>),
            proof |-> <<>>, i |-> 0, times |-> NoCount]

\* no activation of verify_custom
VcOff == [on |-> FALSE, who |-> "", mode |-> "", name |-> <<>>, proof |-> <<>>,
          stack |-> <<>>, proof_count |-> 0]

\* no call from outside read yet.  A call that has ended leaves its
\* arguments (mode, stat, proof), what it did (ret: "True", "False" or
\* "raise"; raised: the exception), where it ended (at: "begin", "step" for
\* the label last in proof, "end" after the last label) and the operand stack
\* it ended with
NoCall == [mode |-> "", stat |-> <<>>, proof |-> <<>>, ret |-> "", raised |-> "",
           at |-> "", stack |-> <<>>]

\* line 813 has not run on a proof of the input.  A run leaves its arguments
\* (stat, proof), the locals labels (line 624) and proof_ints (line 642) of
\* decompress_proof, the label list the loop of verify_custom is to replay
\* (out) and the exception that ended it ("" for none)
NoDec == [stat |-> <<>>, proof |-> <<>>, labels |-> <<>>, ints |-> <<>>, out |-> <<>>,
          raised |-> "", ran |-> FALSE]

\* no token source has been made
NoToks == [files |-> EmptyMap, lines_buf |-> <<>>, imported_files |-> {},
           opened |-> <<>>, tok |-> ""]

\* no tree operation has been set up.  op is the operation to run next on
\* the tree proof ("" for none): with the tree node, mark_subst; with the
\* floats predictions, the steps of analyze_predictions_test on one proof
NoTrees == [op |-> "", proof |-> <<>>, node |-> <<>>, predictions |-> <<>>,
            marked |-> <<>>, proof_raw |-> <<>>, objs |-> <<>>, visited |-> <<>>,
            is_tree |-> -1, raised |-> ""]

\* refactor_all has not been called.  A run is at "running", "returned" or
\* "raised" (raised: the exception); originals and templates are
\* all_original_proofs and all_new_proofs as names, i and j the loop
\* counters (from 1), count the sum of refactor_counts[i, :],
\* refactored_proof the copy being rewritten.  before is self.proofs at the
\* call and last the rewrite tried last: the copy before and after it, the
\* place of the rewritten node, the names of the original (of) and of the
\* template (by), and whether the copy verified
NoRefactor == [at |-> "idle", raised |-> "", originals |-> <<>>, templates |-> <<>>,
               i |-> 0, j |-> 0, count |-> 0, refactored_proof |-> <<>>,
               refactored_theorems |-> <<>>, before |-> <<>>,
               last |-> [tried |-> FALSE, kept |-> FALSE, of |-> <<>>, by |-> <<>>,
                         before |-> <<>>, after |-> <<>>, path |-> <<>>]]

\* MM(threshold, raw_proof_max_length), before mm.read is called
Init ==
    /\ fs = <<>>
    /\ labels = EmptyMap
    /\ proofs = EmptyMap
    /\ current_subproof_count = NoCount
    /\ fam \in Families
    /\ threshold = Config(fam)[1]
    /\ raw_proof_max_length = Config(fam)[2]
    /\ pos = 0
    /\ nstmt = 0
    /\ rd = "init"
    /\ err = ""
    /\ cur = CurIdle
    /\ vc = VcOff
    /\ call = NoCall
    /\ boundNow = {}
    /\ dec = NoDec
    /\ tk = NoToks
    /\ tr = NoTrees
    /\ rf = NoRefactor

(***************************************************************************)
(* MM.read: one action per statement of the input                           *)
(***************************************************************************)
RECURSIVE add_c_all(_, _)
\* `for tok in toks.readstat(): self.fs.add_c(tok)`: stops at the first failure
add_c_all(fstack, toks) ==
    IF toks = <<>> THEN [ok |-> TRUE, fs |-> fstack]
    ELSE LET r == add_c(fstack, Head(toks))
         IN IF r.ok THEN add_c_all(r.fs, Tail(toks)) ELSE r

RECURSIVE add_v_all(_, _)
\* `for tok in toks.readstat(): self.fs.add_v(tok)`: stops at the first failure
add_v_all(fstack, toks) ==
    IF toks = <<>> THEN [ok |-> TRUE, fs |-> fstack]
    ELSE LET r == add_v(fstack, Head(toks))
         IN IF r.ok THEN add_v_all(r.fs, Tail(toks)) ELSE r

\* the reader is between two statements
Between == rd = "reading" /\ cur.phase = "idle"

\* the statements the input can continue with
NextStmts ==
    IF ~Between THEN {}
    ELSE IF pos < Len(Opening(fam)) THEN {Opening(fam)[pos + 1]}
    ELSE IF nstmt < Budget(fam) THEN Menu(fam)
    ELSE {}

\* the statements of keyword kw among them
Reading(kw) == {st \in NextStmts : st.kw = kw}

\* one more statement of the input has been read
Consume ==
    IF pos < Len(Opening(fam))
    THEN pos' = pos + 1 /\ UNCHANGED nstmt
    ELSE nstmt' = nstmt + 1 /\ UNCHANGED pos

\* an exception leaves MM.read
Raise(e) == rd' = "failed" /\ err' = e

\* mm.read(toks(f)): the top-level call pushes the outermost frame
BeginRead ==
    /\ rd = "init"
    /\ rd' = "reading"
    /\ fs' = push(fs)
    /\ UNCHANGED <<labels, proofs, current_subproof_count, setup, pos, nstmt, err,
                   cur, vc, call, boundNow>>

\* $c tok ... $.
ReadC ==
    /\ \E st \in Reading("$c") :
         LET r == add_c_all(fs, st.stat) IN
         /\ fs' = r.fs
         /\ IF r.ok THEN UNCHANGED <<rd, err>> ELSE Raise("MMError")
    /\ Consume
    /\ UNCHANGED <<labels, proofs, current_subproof_count, setup, cur, vc, call, boundNow>>

\* $v tok ... $.
ReadV ==
    /\ \E st \in Reading("$v") :
         LET r == add_v_all(fs, st.stat) IN
         /\ fs' = r.fs
         /\ IF r.ok THEN UNCHANGED <<rd, err>> ELSE Raise("MMError")
    /\ Consume
    /\ UNCHANGED <<labels, proofs, current_subproof_count, setup, cur, vc, call, boundNow>>

\* $d tok ... $.
ReadD ==
    /\ \E st \in Reading("$d") : fs' = add_d(fs, st.stat)
    /\ Consume
    /\ UNCHANGED <<labels, proofs, current_subproof_count, setup, rd, err, cur, vc,
                   call, boundNow>>

\* label $f typecode var $.
ReadF ==
    /\ \E st \in Reading("$f") :
         LET r == add_f(fs, st.stat[2], st.stat[1], st.label)
         IN IF Len(st.stat) # 2 \/ ~r.ok
            THEN Raise("MMError") /\ UNCHANGED <<fs, labels>>
            ELSE /\ fs' = r.fs
                 /\ labels' = Bind(labels, st.label, HypEntry("$f", st.stat))
                 /\ UNCHANGED <<rd, err>>
    /\ Consume
    /\ UNCHANGED <<proofs, current_subproof_count, setup, cur, vc, call, boundNow>>

\* label $e stat $.
ReadE ==
    /\ \E st \in Reading("$e") :
         /\ fs' = add_e(fs, st.stat, st.label)
         /\ labels' = Bind(labels, st.label, HypEntry("$e", st.stat))
    /\ Consume
    /\ UNCHANGED <<proofs, current_subproof_count, setup, rd, err, cur, vc, call, boundNow>>

\* label $a stat $.
ReadA ==
    /\ \E st \in Reading("$a") :
         labels' = Bind(labels, st.label, AssEntry("$a", make_assertion(fs, st.stat)))
    /\ Consume
    /\ UNCHANGED <<fs, proofs, current_subproof_count, setup, rd, err, cur, vc, call,
                   boundNow>>

\* ${ : the recursive call of read pushes a frame
ReadOpen ==
    /\ Reading("${") # {}
    /\ Len(fs) < MaxDepth
    /\ fs' = push(fs)
    /\ Consume
    /\ UNCHANGED <<labels, proofs, current_subproof_count, setup, rd, err, cur, vc,
                   call, boundNow>>

\* $} : the loop of the innermost read ends and its frame is popped; the read
\* that was called from outside returns
ReadClose ==
    /\ Reading("$}") # {}
    /\ fs' = SubSeq(fs, 1, Len(fs) - 1)
    /\ rd' = IF Len(fs) = 1 THEN "done" ELSE rd
    /\ Consume
    /\ UNCHANGED <<labels, proofs, current_subproof_count, setup, err, cur, vc, call,
                   boundNow>>

\* end of input: readc returns None, the innermost read pops its frame and
\* returns; an enclosing read then calls readc on the exhausted token source,
\* whose lines_buf[-1] raises IndexError
ReadEOF ==
    /\ Between
    /\ pos = Len(Opening(fam))
    /\ fs' = SubSeq(fs, 1, Len(fs) - 1)
    /\ IF Len(fs) = 1 THEN rd' = "done" /\ UNCHANGED err ELSE Raise("IndexError")
    /\ UNCHANGED <<labels, proofs, current_subproof_count, setup, pos, nstmt, cur, vc,
                   call, boundNow>>

(***************************************************************************)
(* The $p statement: lines 569-587                                          *)
(***************************************************************************)
\* the calls the $p branch makes after make_assertion, in program order:
\* verify_custom(stat, proof, label), verify_custom(..., num_expand=1),
\* self.labels[label] = ('$p', ...)
PSteps == <<"verify", "expand", "bind">>

\* the phase after ph, "idle" after the last
PhaseAfter(ph) ==
    LET k == CHOOSE n \in 1..Len(PSteps) : PSteps[n] = ph
    IN IF k = Len(PSteps) THEN "idle" ELSE PSteps[k + 1]

\* cur once the $p branch has finished the phase of c
Advance(c) ==
    IF PhaseAfter(c.phase) = "idle" THEN CurIdle ELSE [c EXCEPT !.phase = PhaseAfter(c.phase)]

\* boundNow once the $p branch has finished the phase of cur
Carry(bound) == IF PhaseAfter(cur.phase) = "idle" THEN {} ELSE bound

\* the forms of the proof between $= and $. : labels, nothing at all, or the
\* compressed form `( )` that decompress_proof turns into no labels
ProofForms == {"labels", "none", "paren"}

\* what a failure of kind e does in the given mode: MMError is raised in
\* strict mode and turned into False in probe mode; any other exception is
\* raised in both
Surface(mode, e) == IF mode = "error" \/ e \notin ReplayErrors THEN "raise" ELSE "False"

\* label $p stat $= proof $. : the statement is read and make_assertion run
ReadP ==
    /\ \E st \in Reading("$p") :
         cur' = [CurIdle EXCEPT !.phase = PSteps[1], !.label = st.label,
                                !.ass = make_assertion(fs, st.stat)]
    /\ Consume
    /\ boundNow' = {}
    /\ UNCHANGED <<fs, labels, proofs, current_subproof_count, setup, rd, err, vc, call>>

\* entry of verify_custom(stat, proof, label) up to the loop (lines 802-820).
\* proof[0] of a proof without tokens raises IndexError (line 813); `( )`
\* decompresses to no labels, the loop runs no iteration and stack[0] raises
\* IndexError (line 938)
VerifyBegin ==
    /\ cur.phase = "verify" /\ ~vc.on
    /\ \E form \in ProofForms :
         IF form # "labels"
         THEN Raise("IndexError") /\ cur' = CurIdle /\ boundNow' = {} /\ UNCHANGED vc
         ELSE /\ vc' = [VcOff EXCEPT !.on = TRUE, !.who = "read", !.mode = "error",
                                     !.name = <<cur.label>>]
              /\ UNCHANGED <<rd, err, cur, boundNow>>
    /\ UNCHANGED <<fs, labels, proofs, current_subproof_count, setup, pos, nstmt, call>>

\* one iteration of `for label in proof` of the running verify_custom
\* (num_expand = 0)
VerifyStep ==
    /\ vc.on
    /\ Len(vc.proof) < MaxProofLen
    /\ \E label \in ProofLabels(fam) :
       \E o \in StepLabel(labels, fs, vc.stack, label, vc.mode, vc.name) :
         IF o.err = ""
         THEN /\ vc' = [vc EXCEPT !.proof = Append(@, label), !.stack = o.stack,
                                  !.proof_count = @ + o.dp]
              /\ UNCHANGED <<rd, err, cur, call, boundNow>>
         ELSE /\ vc' = VcOff
              /\ IF vc.who = "read"
                 THEN Raise(o.err) /\ cur' = CurIdle /\ boundNow' = {} /\ UNCHANGED call
                 ELSE /\ \E stat \in CallStats :
                           call' = [mode |-> vc.mode, stat |-> stat,
                                    proof |-> Append(vc.proof, label),
                                    ret |-> Surface(vc.mode, o.err),
                                    raised |-> IF Surface(vc.mode, o.err) = "raise"
                                               THEN o.err ELSE "",
                                    at |-> "step", stack |-> vc.stack]
                      /\ UNCHANGED <<rd, err, cur, boundNow>>
    /\ UNCHANGED <<fs, labels, proofs, current_subproof_count, setup, pos, nstmt>>

\* a store under the empty name as well
StoredOrNot_any_name(prfs, name, root) == StoreProof(prfs, name, root)

\* self.proofs after lines 958-965 of a verification that has succeeded:
\* `elif len(name) > 0` keeps the tree of a dummy verify out of the table
StoredOrNot(prfs, name, root) == IF Len(name) > 0 THEN StoreProof(prfs, name, root) ELSE prfs

\* self.current_subproof_count after lines 966-967 (num_expand = 0)
Counted(count, name, proof_count) ==
    IF name # <<>> /\ ~HasExpand(name) THEN proof_count ELSE count

\* the end of verify_custom after the last label (lines 938-969, num_expand = 0)
VerifyEnd ==
    /\ vc.on
    /\ Len(vc.proof) >= 1
    /\ \E stat \in (IF vc.who = "read" THEN {cur.ass.stat} ELSE CallStats) :
         LET e == Conclude(vc.stack, stat)
             root == [vc.stack[1] EXCEPT !.name = vc.name]
         IN
         /\ vc' = VcOff
         /\ IF vc.who = "read"
            THEN /\ UNCHANGED call
                 /\ IF e # ""
                    THEN /\ Raise(e) /\ cur' = CurIdle /\ boundNow' = {}
                         /\ UNCHANGED <<proofs, current_subproof_count>>
                    ELSE IF summarize_proof(root) # vc.proof
                    THEN /\ Raise("AssertionError") /\ cur' = CurIdle /\ boundNow' = {}
                         /\ UNCHANGED <<proofs, current_subproof_count>>
                    ELSE /\ proofs' = StoreProof(proofs, vc.name, root)
                         /\ current_subproof_count' =
                                IF ~HasExpand(vc.name) THEN vc.proof_count
                                ELSE current_subproof_count
                         /\ cur' = Advance([cur EXCEPT !.proof = vc.proof])
                         /\ boundNow' = Carry(boundNow)
                         /\ UNCHANGED <<rd, err>>
            ELSE /\ call' = [mode |-> vc.mode, stat |-> stat, proof |-> vc.proof,
                             ret |-> IF e = "" THEN "True" ELSE Surface(vc.mode, e),
                             raised |-> IF e # "" /\ Surface(vc.mode, e) = "raise"
                                        THEN e ELSE "",
                             at |-> "end", stack |-> vc.stack]
                 /\ proofs' = IF e = "" THEN StoredOrNot(proofs, vc.name, root) ELSE proofs
                 /\ current_subproof_count' =
                        IF e = "" THEN Counted(current_subproof_count, vc.name, vc.proof_count)
                        ELSE current_subproof_count
                 /\ UNCHANGED <<rd, err, cur, boundNow>>
    /\ UNCHANGED <<fs, labels, setup, pos, nstmt>>

\* entry of verify_custom(stat, proof, label, num_expand=1) (lines 802-813):
\* returns at once when the stored proof is longer than raw_proof_max_length,
\* else fixes the number of passes
ExpandBegin ==
    /\ cur.phase = "expand" /\ cur.times = NoCount /\ ~vc.on
    /\ IF ~proofs[<<cur.label>>].single
       THEN Raise("AttributeError") /\ cur' = CurIdle /\ boundNow' = {}
       ELSE IF Len(summarize_proof(proofs[<<cur.label>>].roots[1])) > raw_proof_max_length
       THEN cur' = Advance(cur) /\ boundNow' = Carry(boundNow) /\ UNCHANGED <<rd, err>>
       ELSE /\ cur' = [cur EXCEPT
                          !.times = IF threshold # -1
                                    THEN IF current_subproof_count <= threshold
                                         THEN current_subproof_count ELSE threshold
                                    ELSE current_subproof_count,
                          !.i = 0]
            /\ UNCHANGED <<rd, err, boundNow>>
    /\ UNCHANGED <<fs, labels, proofs, current_subproof_count, setup, pos, nstmt, vc, call>>

\* one pass of `for i in range(times)`: the (i+1)-th $p step of the proof is
\* expanded, the expanded proof verified and stored under
\* 'expand_{X}_in_{T}'
ExpandPass ==
    /\ cur.phase = "expand" /\ cur.times # NoCount /\ cur.i < cur.times
    /\ \E r \in ExpandPassOutcomes(labels, fs, proofs, raw_proof_max_length, cur.ass.stat,
                                   cur.proof, <<cur.label>>, cur.i) :
         /\ labels' = r.lbls
         /\ proofs' = r.prfs
         /\ IF r.err # ""
            THEN Raise(r.err) /\ cur' = CurIdle /\ boundNow' = {}
            ELSE /\ cur' = [cur EXCEPT !.i = @ + 1]
                 /\ boundNow' = boundNow \cup
                        {l \in DOMAIN r.lbls : l \notin DOMAIN labels \/ r.lbls[l] # labels[l]}
                 /\ UNCHANGED <<rd, err>>
    /\ UNCHANGED <<fs, current_subproof_count, setup, pos, nstmt, vc, call>>

\* the loop `for i in range(times)` has run all its passes (or returned from
\* the only one, line 968)
ExpandEnd ==
    /\ cur.phase = "expand" /\ cur.times # NoCount /\ cur.i >= cur.times
    /\ cur' = Advance(cur)
    /\ boundNow' = Carry(boundNow)
    /\ UNCHANGED <<fs, labels, proofs, current_subproof_count, setup, pos, nstmt, rd, err,
                   vc, call>>

\* self.labels[label] = ('$p', (dvs, f_hyps, e_hyps, stat)) (line 585)
BindP ==
    /\ cur.phase = "bind" /\ ~vc.on
    /\ labels' = Bind(labels, cur.label, AssEntry("$p", cur.ass))
    /\ cur' = Advance(cur)
    /\ boundNow' = Carry(boundNow \cup {cur.label})
    /\ UNCHANGED <<fs, proofs, current_subproof_count, setup, pos, nstmt, rd, err, vc, call>>

(***************************************************************************)
(* verify_custom called from outside read (theorem_refactor.py line 219,    *)
(* theorem_verification.py lines 171, 184, 290): name '', num_expand = 0     *)
(***************************************************************************)
CallBegin ==
    /\ CallsAfterRead(fam)
    /\ rd \in {"done", "failed"} /\ ~vc.on
    /\ \E mode \in {"error", "other"}, form \in ProofForms :
         IF form # "labels"
         THEN /\ call' = [NoCall EXCEPT !.mode = mode, !.ret = "raise",
                                        !.raised = "IndexError", !.at = "begin"]
              /\ UNCHANGED vc
         ELSE /\ vc' = [VcOff EXCEPT !.on = TRUE, !.who = "api", !.mode = mode]
              /\ call' = NoCall
    /\ UNCHANGED <<fs, labels, proofs, current_subproof_count, setup, pos, nstmt, rd, err,
                   cur, boundNow>>

Next ==
    \/ BeginRead
    \/ ReadC
    \/ ReadV
    \/ ReadD
    \/ ReadF
    \/ ReadE
    \/ ReadA
    \/ ReadOpen
    \/ ReadClose
    \/ ReadEOF
    \/ ReadP
    \/ VerifyBegin
    \/ VerifyStep
    \/ VerifyEnd
    \/ ExpandBegin
    \/ ExpandPass
    \/ ExpandEnd
    \/ BindP
    \/ CallBegin

Spec == Init /\ [][Next]_vars


(***************************************************************************)
(* MM.decompress_proof (lines 615-679) and its call at line 813.  A proof   *)
(* is [head, code]: the tokens up to and including the first ')' (for an     *)
(* explicit proof: all its tokens), then the words of the compressed part,   *)
(* each a list of characters.                                                *)
(***************************************************************************)
\* number of characters of the compressed part of a proof
MaxCode == 3

\* the capital letters in the order of their character codes
Letters == <<"A", "B", "C", "D", "E", "F", "G", "H", "I", "J", "K", "L", "M",
             "N", "O", "P", "Q", "R", "S", "T", "U", "V", "W", "X", "Y", "Z">>

\* ord(ch) of a capital letter
Ord(ch) == 64 + (CHOOSE i \in 1..Len(Letters) : Letters[i] = ch)

\* `cur_int = (5 * cur_int + ord(ch) - ord('U') + 1)` (line 641)
OpenDigit(cur_int, ch) == 5 * cur_int + Ord(ch) - Ord("U") + 1

\* `cur_int = (20 * cur_int + ord(ch) - ord('A') + 1)` (line 637)
CloseDigit(cur_int, ch) == 20 * cur_int + Ord(ch) - Ord("A") + 1

RECURSIVE decode_from(_, _, _, _)
\* the loop `for ch in compressed_proof` (lines 633-641) from character k on
decode_from(chars, k, cur_int, proof_ints) ==
    IF k > Len(chars) THEN proof_ints
    ELSE LET ch == chars[k] IN
         IF ch = "Z" THEN decode_from(chars, k + 1, cur_int, Append(proof_ints, -1))
         ELSE IF Ord("A") <= Ord(ch) /\ Ord(ch) <= Ord("T")
         THEN decode_from(chars, k + 1, 0, Append(proof_ints, CloseDigit(cur_int, ch) - 1))
         ELSE IF Ord("U") <= Ord(ch) /\ Ord(ch) <= Ord("Y")
         THEN decode_from(chars, k + 1, OpenDigit(cur_int, ch), proof_ints)
         ELSE decode_from(chars, k + 1, cur_int, proof_ints)

\* proof_ints of line 642
decode(chars) == decode_from(chars, 1, 0, <<>>)

\* a slice that keeps the last element only
LastN_single(seq, n) == IF seq = <<>> THEN seq ELSE SubSeq(seq, Len(seq), Len(seq))

\* Python's seq[-n:] and seq[:-n] for n > 0
LastN(seq, n) == IF n >= Len(seq) THEN seq ELSE SubSeq(seq, Len(seq) - n + 1, Len(seq))
DropLastN(seq, n) == IF n >= Len(seq) THEN <<>> ELSE SubSeq(seq, 1, Len(seq) - n)

\* a back-reference that emits the marked subproof where the Z stands
MarkSubproof_emits(st) ==
    [st EXCEPT !.subproofs = Append(@, st.prev_proofs[Len(st.prev_proofs)]),
               !.decompressed_ints = @ \o st.prev_proofs[Len(st.prev_proofs)]]

\* `subproofs.append(prev_proofs[-1])` (line 650)
MarkSubproof(st) ==
    [st EXCEPT !.subproofs = Append(@, st.prev_proofs[Len(st.prev_proofs)])]

RECURSIVE unfold_from(_, _, _, _, _, _)
\* the loop `for pf_int in proof_ints` (lines 648-676) from position k on; st
\* is [decompressed_ints, subproofs, prev_proofs]; proof_labels is the local
\* `labels`.  [err, ints, st]: the exception, decompressed_ints and the three
\* locals where the loop ends
unfold_from(lbls, proof_labels, hyp_end, proof_ints, k, st) ==
    IF k > Len(proof_ints) THEN [err |-> "", ints |-> st.decompressed_ints, st |-> st]
    ELSE
    LET pf_int == proof_ints[k]
        label_end == Len(proof_labels)
        go(next) == unfold_from(lbls, proof_labels, hyp_end, proof_ints, k + 1, next)
        fail(e) == [err |-> e, ints |-> st.decompressed_ints, st |-> st]
    IN
    IF pf_int = -1
    THEN IF st.prev_proofs = <<>> THEN fail("IndexError") ELSE go(MarkSubproof(st))
    ELSE IF 0 <= pf_int /\ pf_int < hyp_end
    THEN go([st EXCEPT !.prev_proofs = Append(@, <<pf_int>>),
                       !.decompressed_ints = Append(@, pf_int)])
    ELSE IF hyp_end <= pf_int /\ pf_int < label_end
    THEN IF proof_labels[pf_int + 1] \notin DOMAIN lbls THEN fail("KeyError")
         ELSE LET step == lbls[proof_labels[pf_int + 1]]
                  nshyps == Len(step.e_hyps) + Len(step.f_hyps)
              IN IF step.typ \in {"$a", "$p"} /\ nshyps # 0
                 THEN go([st EXCEPT
                            !.decompressed_ints = Append(@, pf_int),
                            !.prev_proofs =
                                Append(DropLastN(@, nshyps),
                                       Flatten(LastN(@, nshyps)) \o <<pf_int>>)])
                 ELSE go([st EXCEPT !.decompressed_ints = Append(@, pf_int),
                                    !.prev_proofs = Append(@, <<pf_int>>)])
    ELSE IF label_end <= pf_int
    THEN IF pf_int - label_end >= Len(st.subproofs) THEN fail("IndexError")
         ELSE LET pf == st.subproofs[pf_int - label_end + 1]
              IN go([st EXCEPT !.decompressed_ints = @ \o pf,
                               !.prev_proofs = Append(@, pf)])
    ELSE go(st)

\* proof.index(')'): the place of the first ')' among the tokens, 0 for none
\* (ValueError)
IndexOfParen(head) ==
    IF \E i \in 1..Len(head) : head[i] = ")"
    THEN CHOOSE i \in 1..Len(head) : head[i] = ")" /\ \A k \in 1..(i - 1) : head[k] # ")"
    ELSE 0

\* what a run of line 813 leaves: the exception ("" for none), the locals
\* labels and proof_ints of decompress_proof, and the label list to replay
Decompressed(e, proof_labels, proof_ints, out) ==
    [err |-> e, labels |-> proof_labels, ints |-> proof_ints, out |-> out]

\* MM.decompress_proof(stat, proof)
decompress_proof(fstack, lbls, stat, proof) ==
    IF fstack = <<>> THEN Decompressed("IndexError", <<>>, <<>>, <<>>)
    ELSE
    LET ass == make_assertion(fstack, stat)
        mand_hyps == [i \in 1..Len(ass.f_hyps) |-> lookup_f(fstack, ass.f_hyps[i][2])]
        hyps == [j \in 1..Len(ass.e_hyps) |-> lookup_e(fstack, ass.e_hyps[j])]
        found == mand_hyps \o hyps
        ep == IndexOfParen(proof.head)
    IN
    IF \E i \in 1..Len(found) : ~found[i].ok
    THEN Decompressed("KeyError", <<>>, <<>>, <<>>)
    ELSE IF ep = 0 THEN Decompressed("ValueError", <<>>, <<>>, <<>>)
    ELSE
    LET hyp_end == Len(found)
        proof_labels == [i \in 1..hyp_end |-> found[i].label] \o SubSeq(proof.head, 2, ep - 1)
        compressed_proof == Flatten(proof.code)
        proof_ints == decode(compressed_proof)
        r == unfold_from(lbls, proof_labels, hyp_end, proof_ints, 1,
                         [decompressed_ints |-> <<>>, subproofs |-> <<>>, prev_proofs |-> <<>>])
    IN Decompressed(r.err, proof_labels, proof_ints,
                    IF r.err # "" THEN <<>>
                    ELSE [i \in 1..Len(r.ints) |-> proof_labels[r.ints[i] + 1]])

\* a line 813 that hands every proof to decompress_proof
ProofToReplay_always_decompressed(fstack, lbls, stat, proof) ==
    decompress_proof(fstack, lbls, stat, proof)

\* `if proof[0] == '(': proof = self.decompress_proof(stat, proof)` (line 813)
ProofToReplay(fstack, lbls, stat, proof) ==
    IF proof.head = <<>> THEN Decompressed("IndexError", <<>>, <<>>, <<>>)
    ELSE IF proof.head[1] = "(" THEN decompress_proof(fstack, lbls, stat, proof)
    ELSE Decompressed("", <<>>, <<>>, proof.head)

(***************************************************************************)
(* The $p statement that ends a database of DecompressFamilies, up to the   *)
(* loop of verify_custom                                                    *)
(***************************************************************************)
\* the characters a compressed part is written with
CodeChars == {"A", "B", "C", "D", "T", "U", "V", "Z"}

RECURSIVE Words(_)
\* the words of at most n characters
Words(n) ==
    IF n = 0 THEN {<<>>}
    ELSE Words(n - 1) \cup {Append(w, c) : w \in Words(n - 1), c \in CodeChars}

\* the token lists of at most two tokens a proof is written with when it has
\* no compressed part
ShortHeads ==
    LET T == {"wp", "wq", "(", ")"}
    IN {<<>>} \cup {<<a>> : a \in T} \cup {<<a, b>> : a \in T, b \in T}

\* the proofs the $p statement comes with: every compressed part of at most
\* MaxCode characters, and one that marks a complete step and refers to it
InputProofs(family) ==
    IF family = "codes"
    THEN {[head |-> <<"(">> \o loc \o <<")">>, code |-> <<w>>] :
             loc \in {<<>>, <<"ax">>}, w \in Words(MaxCode)}
         \cup {[head |-> <<"(", "ax", ")">>, code |-> <<<<"A", "B", "C", "Z">>, <<"D">>>>]}
         \cup {[head |-> h, code |-> <<>>] : h \in ShortHeads}
    ELSE {[head |-> <<"(", ")">>, code |-> <<<<"A", "B">>, <<"C">>>>],
          [head |-> <<"wp", "h">>, code |-> <<>>]}

\* the statement it proves
PStat == St("$p", "th", <<"wff", "p", "q">>)

\* th $p wff p q $= proof $. : the statement is read, make_assertion run
\* (line 581), verify_custom entered and line 813 run
DecompressP ==
    /\ fam \in DecompressFamilies
    /\ Between /\ pos = Len(Opening(fam))
    /\ \E proof \in InputProofs(fam) :
         LET ass == make_assertion(fs, PStat.stat)
             r == ProofToReplay(fs, labels, ass.stat, proof)
         IN /\ dec' = [stat |-> ass.stat, proof |-> proof, labels |-> r.labels,
                       ints |-> r.ints, out |-> r.out, raised |-> r.err, ran |-> TRUE]
            /\ IF r.err # ""
               THEN Raise(r.err) /\ cur' = CurIdle /\ UNCHANGED vc
               ELSE /\ cur' = [CurIdle EXCEPT !.phase = PSteps[1], !.label = PStat.label,
                                              !.ass = ass]
                    /\ vc' = [VcOff EXCEPT !.on = TRUE, !.who = "read", !.mode = "error",
                                           !.name = <<PStat.label>>]
                    /\ UNCHANGED <<rd, err>>
    /\ Consume
    /\ UNCHANGED <<fs, labels, proofs, current_subproof_count, threshold,
                   raw_proof_max_length, fam, tk, tr, rf, call, boundNow>>

\* a database of DecompressFamilies, before mm.read is called
InitDecompress ==
    /\ fs = <<>>
    /\ labels = EmptyMap
    /\ proofs = EmptyMap
    /\ current_subproof_count = NoCount
    /\ fam \in DecompressFamilies
    /\ threshold = Config(fam)[1]
    /\ raw_proof_max_length = Config(fam)[2]
    /\ pos = 0
    /\ nstmt = 0
    /\ rd = "init"
    /\ err = ""
    /\ cur = CurIdle
    /\ vc = VcOff
    /\ call = NoCall
    /\ boundNow = {}
    /\ dec = NoDec
    /\ tk = NoToks
    /\ tr = NoTrees
    /\ rf = NoRefactor

NextDecompress ==
    \/ BeginRead
    \/ ReadC
    \/ ReadV
    \/ ReadD
    \/ ReadF
    \/ ReadE
    \/ ReadA
    \/ ReadOpen
    \/ ReadClose
    \/ DecompressP

SpecDecompress == InitDecompress /\ [][NextDecompress]_vars

(***************************************************************************)
(* The token source: class toks (lines 47-76).  A file is a list of lines;  *)
(* a line is an include directive `$[ name $]` or one other token: a        *)
(* constant declaration keyword or a comment delimiter.                     *)
(***************************************************************************)
\* number of lines of a file
MaxLines == 2

\* the file names an include directive is written with
FileNames == {"main.mm", "a.mm", "./a.mm"}

\* os.path.realpath(filename), the working directory being /db
realpath(filename) ==
    CASE filename = "main.mm" -> "/db/main.mm"
      [] filename = "a.mm" -> "/db/a.mm"
      [] filename = "./a.mm" -> "/db/a.mm"

\* the file the driver opens and hands to toks (args.main_file)
MainFile == "main.mm"

\* the lines of the files
FileLines == {<<"$[", n, "$]">> : n \in FileNames} \cup {<<"$c">>, <<"$(">>, <<"$)">>}

RECURSIVE LineLists(_)
\* the files of at most n lines
LineLists(n) ==
    IF n = 0 THEN {<<>>}
    ELSE LineLists(n - 1) \cup {Append(f, l) : f \in LineLists(n - 1), l \in FileLines}

\* toks(lines) (lines 48-51) on the file the driver has opened: lines_buf is
\* the stack of open files, each with the number of its lines read; opened
\* lists the paths of the files opened so far, the driver's first
NewToks(files) ==
    [files |-> files,
     lines_buf |-> <<[path |-> realpath(MainFile), at |-> 0]>>,
     imported_files |-> {},
     opened |-> <<realpath(MainFile)>>,
     tok |-> ""]

RECURSIVE readf(_)
\* toks.readf (lines 64-76) with the calls of toks.read it makes (lines
\* 53-62): the token source after the call, tok being what it returned
\* ("None" at the end of the input)
readf(t) ==
    IF t.lines_buf = <<>> THEN [t EXCEPT !.tok = "None"]
    ELSE
    LET top == t.lines_buf[Len(t.lines_buf)]
        text == t.files[top.path]
    IN
    IF top.at = Len(text)
    THEN readf([t EXCEPT !.lines_buf = SubSeq(@, 1, Len(@) - 1)])
    ELSE
    LET line == text[top.at + 1]
        advanced == [t EXCEPT !.lines_buf[Len(t.lines_buf)].at = @ + 1]
    IN
    IF line[1] # "$[" THEN [advanced EXCEPT !.tok = line[1]]
    ELSE LET filename == realpath(line[2])
         IN IF filename \notin t.imported_files
            THEN readf([advanced EXCEPT
                           !.lines_buf = Append(@, [path |-> filename, at |-> 0]),
                           !.imported_files = @ \cup {filename},
                           !.opened = Append(@, filename)])
            ELSE readf(advanced)

RECURSIVE InComment(_)
\* the inner loop of toks.readc (lines 83-84), entered with tok = `$(`: calls
\* of toks.read (lines 53-62) until one returns `$)`.  read pops a file that
\* is at its end and goes on in the file below it; with the last file popped
\* it returns None, which is not `$)`, and the next call evaluates
\* self.lines_buf[-1] on the empty list.  The tokens of an include line are
\* read one by one and none of them is `$)`.
InComment(t) ==
    IF t.lines_buf = <<>> THEN [t |-> t, raised |-> "IndexError"]
    ELSE
    LET top == t.lines_buf[Len(t.lines_buf)]
        text == t.files[top.path]
    IN
    IF top.at = Len(text)
    THEN InComment([t EXCEPT !.lines_buf = SubSeq(@, 1, Len(@) - 1)])
    ELSE
    LET advanced == [t EXCEPT !.lines_buf[Len(t.lines_buf)].at = @ + 1]
    IN IF text[top.at + 1][1] = "$)" THEN [t |-> advanced, raised |-> ""]
       ELSE InComment(advanced)

RECURSIVE readc(_)
\* toks.readc (lines 78-87): the next token outside a comment; t is the token
\* source after the call and raised the exception the call ended with
readc(t) ==
    LET r == readf(t)
    IN IF r.tok = "$("
       THEN LET c == InComment(r)
            IN IF c.raised # "" THEN c ELSE readc(c.t)
       ELSE [t |-> r, raised |-> ""]

\* one call of toks.readf by the reader
Readf ==
    /\ tk.tok # "None"
    /\ err = ""
    /\ tk' = readf(tk)
    /\ UNCHANGED <<fs, labels, proofs, current_subproof_count, threshold,
                   raw_proof_max_length, fam, pos, nstmt, rd, err, cur, vc, call,
                   boundNow, dec, tr, rf>>

\* the driver has opened the main file and made the token source
InitToks ==
    /\ fs = <<>>
    /\ labels = EmptyMap
    /\ proofs = EmptyMap
    /\ current_subproof_count = NoCount
    /\ fam = "includes"
    /\ threshold = Config(fam)[1]
    /\ raw_proof_max_length = Config(fam)[2]
    /\ pos = 0
    /\ nstmt = 0
    /\ rd = "init"
    /\ err = ""
    /\ cur = CurIdle
    /\ vc = VcOff
    /\ call = NoCall
    /\ boundNow = {}
    /\ dec = NoDec
    /\ tr = NoTrees
    /\ rf = NoRefactor
    /\ tk \in {NewToks(files) : files \in [{realpath(n) : n \in FileNames} -> LineLists(MaxLines)]}

\* one call of toks.readc by the reader (MM.read, toks.readstat)
Readc ==
    /\ tk.tok # "None"
    /\ err = ""
    /\ tk' = readc(tk).t
    /\ err' = readc(tk).raised
    /\ UNCHANGED <<fs, labels, proofs, current_subproof_count, threshold,
                   raw_proof_max_length, fam, pos, nstmt, rd, cur, vc, call,
                   boundNow, dec, tr, rf>>

NextToks == Readf \/ Readc

SpecToks == InitToks /\ [][NextToks]_vars

(***************************************************************************)
(* Operations on one ProofNode tree: ProofNode.mark_subst, and the steps of  *)
(* analyze_predictions_test on one proof (theorem_verification.py lines       *)
(* 354-372): export_single_new, color_proof_tree, check_proof_is_tree.        *)
(* A node of these trees has a field id, the identity of the object.          *)
(***************************************************************************)
\* number of nodes of a tree
MaxNodes == 4

RECURSIVE SizeOf(_)
RECURSIVE SizeOfAll(_)
\* the number of nodes of a tree
SizeOf(node) == 1 + SizeOfAll(node.mand_vars) + SizeOfAll(node.hps)

\* the number of nodes of a list of trees
SizeOfAll(nodes) == IF nodes = <<>> THEN 0 ELSE SizeOf(Head(nodes)) + SizeOfAll(Tail(nodes))

\* a node with the given children: an assertion step over its operands, or
\* the step of a hypothesis
Shape(mand_vars, hps) ==
    [ProofNode(IF mand_vars \o hps = <<>> THEN "wp" ELSE "ax",
               IF mand_vars \o hps = <<>> THEN "$f" ELSE "$a", <<>>)
       EXCEPT !.expr = <<"wff", "p">>, !.mand_vars = mand_vars, !.hps = hps]

\* the lists of trees of at most n nodes in all (n >= 1), no flag set, given
\* the table known == <<lists of 0 nodes, lists of at most 1 node, ...>> up
\* to n - 1 nodes
MoreForests(known, n) ==
    LET trees == UNION {{Shape(m, h) : h \in known[n - SizeOfAll(m)]} : m \in known[n]}
    IN {<<>>} \cup UNION {{<<t>> \o f : f \in known[n - SizeOf(t) + 1]} : t \in trees}

RECURSIVE ForestsUpTo(_)
\* <<lists of 0 nodes, lists of at most 1 node, ..., lists of at most n nodes>>
ForestsUpTo(n) ==
    IF n = 0 THEN <<{<<>>}>>
    ELSE CHOOSE table \in {Append(known, MoreForests(known, n)) :
                              known \in {ForestsUpTo(n - 1)}} : TRUE

\* the trees of at most n nodes (n >= 1), no flag set
ShapesUpTo(n) == {f[1] : f \in {g \in ForestsUpTo(n)[n + 1] : Len(g) = 1}}

RECURSIVE WithIds(_, _)
\* the tree with the identity of every node: the way to it from the root
WithIds(node, path) ==
    [label |-> node.label, type |-> node.type, data |-> node.data, name |-> node.name,
     expr |-> node.expr, subst |-> node.subst, id |-> path,
     mand_vars |-> [i \in 1..Len(node.mand_vars) |->
                       WithIds(node.mand_vars[i], Append(path, <<"mand_vars", i>>))],
     hps |-> [i \in 1..Len(node.hps) |-> WithIds(node.hps[i], Append(path, <<"hps", i>>))]]

RECURSIVE Painted(_, _, _)
\* the tree with the flag bits[k] at its root, bits[k+1] .. at the nodes below
Painted(node, bits, k) ==
    [node EXCEPT
       !.subst = bits[k],
       !.mand_vars = [i \in 1..Len(node.mand_vars) |->
                         Painted(node.mand_vars[i], bits,
                                 k + 1 + SizeOfAll(SubSeq(node.mand_vars, 1, i - 1)))],
       !.hps = [i \in 1..Len(node.hps) |->
                   Painted(node.hps[i], bits,
                           k + 1 + SizeOfAll(node.mand_vars)
                             + SizeOfAll(SubSeq(node.hps, 1, i - 1)))]]

\* the floats a prediction is, in tenths: 0.0, 0.5, 0.6, 1.0
Predictions == {0, 5, 6, 10}

\* round(x) of Python 3 for x given in tenths: halves go to the even integer
PyRound(tenths) ==
    LET q == tenths \div 10
        r == tenths % 10
    IN IF r < 5 THEN q ELSE IF r > 5 THEN q + 1 ELSE IF q % 2 = 0 THEN q ELSE q + 1

(************************** ProofNode.mark_subst **************************)
RECURSIVE mark_subst_old(_, _, _)
\* ProofNode.mark_subst_old (lines 338-351): a node is forced when all its
\* immediate children are substituted
mark_subst_old(self, node, propagating) ==
    LET zip(mine, theirs) ==
            [i \in 1..Len(mine) |-> IF i <= Len(theirs)
                                    THEN mark_subst_old(mine[i], theirs[i], TRUE)
                                    ELSE mine[i]]
        mv == zip(self.mand_vars, node.mand_vars)
        hp == zip(self.hps, node.hps)
        list_subst == [i \in 1..Len(mv) |-> mv[i].subst] \o [i \in 1..Len(hp) |-> hp[i].subst]
    IN [self EXCEPT !.subst = IF propagating /\ Len(list_subst) > 0
                                  /\ \A i \in 1..Len(list_subst) : list_subst[i]
                               THEN TRUE ELSE node.subst,
                    !.mand_vars = mv, !.hps = hp]

RECURSIVE mark_subst(_, _, _)
\* ProofNode.mark_subst (lines 319-336)
mark_subst(self, node, propagating) ==
    LET zip(mine, theirs) ==
            [i \in 1..Len(mine) |-> IF i <= Len(theirs)
                                    THEN mark_subst(mine[i], theirs[i], TRUE)
                                    ELSE mine[i]]
        mv == zip(self.mand_vars, node.mand_vars)
        hp == zip(self.hps, node.hps)
        list_subst == [i \in 1..Len(mv) |-> mv[i].subst] \o [i \in 1..Len(hp) |-> hp[i].subst]
    IN IF propagating /\ Len(list_subst) > 0 /\ \E i \in 1..Len(list_subst) : list_subst[i]
       THEN [self EXCEPT !.subst = TRUE,
                         !.mand_vars = [i \in 1..Len(mv) |-> [mv[i] EXCEPT !.subst = TRUE]],
                         !.hps = [i \in 1..Len(hp) |-> [hp[i] EXCEPT !.subst = TRUE]]]
       ELSE [self EXCEPT !.subst = node.subst, !.mand_vars = mv, !.hps = hp]

(******************* export_single_new (lines 1146-1178) *******************)
\* the record of a node in nodes_list: expression, label, int(subst)
NodeRecord(node) == <<node.expr, node.label, IF node.subst = TRUE THEN 1 ELSE 0>>

RECURSIVE get_graph(_, _, _)
RECURSIVE get_graph_over(_, _, _, _)
\* get_graph(node, node_index); acc is [source, target, nodes_list] and objs,
\* the objects the records of nodes_list were made from
get_graph(node, node_index, acc) ==
    get_graph_over(node.hps, 1, node_index, get_graph_over(node.mand_vars, 1, node_index, acc))

\* the loop `for var in node.mand_vars` / `for hp in node.hps` from child k on
get_graph_over(children, k, node_index, acc) ==
    IF k > Len(children) THEN acc
    ELSE LET var == children[k]
             mand_var_node_index == Len(acc.nodes_list)
             next == [source |-> Append(acc.source, mand_var_node_index),
                      target |-> Append(acc.target, node_index),
                      nodes_list |-> Append(acc.nodes_list, NodeRecord(var)),
                      objs |-> Append(acc.objs, var.id)]
         IN get_graph_over(children, k + 1, node_index,
                           get_graph(var, mand_var_node_index, next))

\* export_single_new(proof, word_dict, allow_update)
export_single_new(proof) ==
    get_graph(proof, 0, [source |-> <<>>, target |-> <<>>,
                         nodes_list |-> <<NodeRecord(proof)>>, objs |-> <<proof.id>>])

(********* color_proof_tree (theorem_verification.py lines 299-315) ********)
RECURSIVE visit_breadth_first(_, _)
\* a traversal that puts the children behind the nodes that wait
visit_breadth_first(a, visited) ==
    IF a = <<>> THEN visited
    ELSE LET node == Head(a)
         IN visit_breadth_first(Tail(a) \o node.mand_vars \o node.hps, Append(visited, node))

RECURSIVE color_visit(_, _)
\* the loop `while len(a) > 0` of color_proof_tree: `a = temp + a`
color_visit(a, visited) ==
    IF a = <<>> THEN visited
    ELSE LET node == Head(a)
         IN color_visit(node.mand_vars \o node.hps \o Tail(a), Append(visited, node))

RECURSIVE get_dfs_from(_, _)
\* the loop of get_dfs (theorem_refactor.py lines 16-29)
get_dfs_from(a, visited) ==
    IF a = <<>> THEN visited
    ELSE LET node == Head(a)
         IN get_dfs_from(node.mand_vars \o node.hps \o Tail(a), Append(visited, node))

\* get_dfs(proof_node)
get_dfs(proof_node) == get_dfs_from(<<proof_node>>, <<>>)

\* the identities of a list of nodes
IdsOf(nodes) == [i \in 1..Len(nodes) |-> nodes[i].id]

RECURSIVE Recolored(_, _, _)
\* `visited[i].subst = predictions[i]` for all i: the tree afterwards, ids
\* being the identities of visited
Recolored(node, ids, predictions) ==
    [node EXCEPT
       !.subst = predictions[CHOOSE i \in 1..Len(ids) : ids[i] = node.id],
       !.mand_vars = [i \in 1..Len(node.mand_vars) |->
                         Recolored(node.mand_vars[i], ids, predictions)],
       !.hps = [i \in 1..Len(node.hps) |-> Recolored(node.hps[i], ids, predictions)]]

(****** check_proof_is_tree (theorem_verification.py lines 93-118) *********)
\* seq[i] of Python, i >= 0
PyAt(seq, i) == seq[i + 1]

\* the keys of adjacency_dict: the indices whose prediction rounds to 1
Keys(predictions) == {i \in 0..(Len(predictions) - 1) : PyRound(PyAt(predictions, i)) = 1}

RECURSIVE incoming_from(_, _, _, _)
\* nodes_with_incoming_edges: the values of adjacency_dict after the loop
\* over the edges, one entry per edge between two keys
incoming_from(new_source, new_target, keys, i) ==
    IF i >= Len(new_source) THEN <<>>
    ELSE (IF PyAt(new_source, i) \in keys /\ PyAt(new_target, i) \in keys
          THEN <<PyAt(new_target, i)>> ELSE <<>>)
         \o incoming_from(new_source, new_target, keys, i + 1)

\* check_proof_is_tree without the test of lines 103-104
check_proof_is_tree_any_size(proof_raw, predictions) ==
    LET new_source == PyAt(proof_raw, 2)
        new_target == PyAt(proof_raw, 1)
        keys == Keys(predictions)
        nodes_with_incoming_edges == incoming_from(new_source, new_target, keys, 0)
    IN IF Cardinality(keys) - Len(nodes_with_incoming_edges) # 1
       THEN [ret |-> 0, raised |-> ""] ELSE [ret |-> 1, raised |-> ""]

\* check_proof_is_tree(proof_raw, predictions): [ret, raised]
check_proof_is_tree(proof_raw, predictions) ==
    LET new_source == PyAt(proof_raw, 2)
        new_target == PyAt(proof_raw, 1)
        nodes == PyAt(proof_raw, 3)
        keys == Keys(predictions)
        nodes_with_incoming_edges == incoming_from(new_source, new_target, keys, 0)
    IN IF Len(nodes) # Len(predictions) THEN [ret |-> -1, raised |-> "AssertionError"]
       ELSE IF Cardinality(keys) <= 1 THEN [ret |-> 0, raised |-> ""]
       ELSE IF Cardinality({nodes_with_incoming_edges[i] :
                               i \in 1..Len(nodes_with_incoming_edges)})
                 # Len(nodes_with_incoming_edges)
       THEN [ret |-> -1, raised |-> "AssertionError"]
       ELSE IF Cardinality(keys) - Len(nodes_with_incoming_edges) # 1
       THEN [ret |-> 0, raised |-> ""]
       ELSE [ret |-> 1, raised |-> ""]

(******************************* the actions *******************************)
\* the trees of at most n nodes an operation is run on
InputTrees(n) == {WithIds(t, <<>>) : t \in ShapesUpTo(n)}

\* self.mark_subst(node) for two trees of the shape t with the flags mine and
\* theirs
MarkInput(t, mine, theirs) ==
    [NoTrees EXCEPT !.op = "mark_subst",
                    !.proof = Painted(t, mine, 1), !.node = Painted(t, theirs, 1)]

\* the steps of analyze_predictions_test for the tree t of a proof read by the
\* verifier (no flag set) and one float for each node
ExportInput(t, p) == [NoTrees EXCEPT !.op = "export", !.proof = t, !.predictions = p]

\* `self.mark_subst(node)`
MarkSubst ==
    /\ tr.op = "mark_subst"
    /\ tr' = [tr EXCEPT !.op = "done", !.marked = mark_subst(tr.proof, tr.node, TRUE)]
    /\ UNCHANGED <<fs, labels, proofs, current_subproof_count, threshold,
                   raw_proof_max_length, fam, pos, nstmt, rd, err, cur, vc, call,
                   boundNow, dec, tk, rf>>

\* `proof_raw = export_single_new(proof_label, word_dict, allow_update=False)`,
\* `proof_raw.insert(0, name)` (theorem_verification.py lines 354-355)
ExportSingleNew ==
    /\ tr.op = "export"
    /\ LET res == export_single_new(tr.proof)
       IN tr' = [tr EXCEPT !.op = "color",
                           !.proof_raw = <<"name", res.source, res.target, res.nodes_list>>,
                           !.objs = res.objs]
    /\ UNCHANGED <<fs, labels, proofs, current_subproof_count, threshold,
                   raw_proof_max_length, fam, pos, nstmt, rd, err, cur, vc, call,
                   boundNow, dec, tk, rf>>

\* `color_proof_tree(proof_label, current_labels)` (line 370)
ColorProofTree ==
    /\ tr.op = "color"
    /\ LET visited == color_visit(<<tr.proof>>, <<>>)
       IN IF Len(visited) # Len(tr.predictions)
          THEN tr' = [tr EXCEPT !.op = "done", !.raised = "AssertionError"]
          ELSE tr' = [tr EXCEPT !.op = "check", !.visited = IdsOf(visited),
                                !.proof = Recolored(tr.proof, IdsOf(visited), tr.predictions)]
    /\ UNCHANGED <<fs, labels, proofs, current_subproof_count, threshold,
                   raw_proof_max_length, fam, pos, nstmt, rd, err, cur, vc, call,
                   boundNow, dec, tk, rf>>

\* `is_tree = check_proof_is_tree(proof_raw, current_labels)` (line 372)
CheckProofIsTree ==
    /\ tr.op = "check"
    /\ LET res == check_proof_is_tree(tr.proof_raw, tr.predictions)
       IN tr' = [tr EXCEPT !.op = "done", !.is_tree = res.ret, !.raised = res.raised]
    /\ UNCHANGED <<fs, labels, proofs, current_subproof_count, threshold,
                   raw_proof_max_length, fam, pos, nstmt, rd, err, cur, vc, call,
                   boundNow, dec, tk, rf>>

\* a tree and the arguments of an operation on it
InitTrees ==
    /\ fs = <<>>
    /\ labels = EmptyMap
    /\ proofs = EmptyMap
    /\ current_subproof_count = NoCount
    /\ fam = "trees"
    /\ threshold = Config(fam)[1]
    /\ raw_proof_max_length = Config(fam)[2]
    /\ pos = 0
    /\ nstmt = 0
    /\ rd = "init"
    /\ err = ""
    /\ cur = CurIdle
    /\ vc = VcOff
    /\ call = NoCall
    /\ boundNow = {}
    /\ dec = NoDec
    /\ tk = NoToks
    /\ rf = NoRefactor
    /\ \E t \in InputTrees(MaxNodes) :
         \/ \E mine \in [1..SizeOf(t) -> BOOLEAN], theirs \in [1..SizeOf(t) -> BOOLEAN] :
              tr = MarkInput(t, mine, theirs)
         \/ \E p \in [1..SizeOf(t) -> Predictions] : tr = ExportInput(t, p)

NextTrees ==
    \/ MarkSubst
    \/ ExportSingleNew
    \/ ColorProofTree
    \/ CheckProofIsTree

SpecTrees == InitTrees /\ [][NextTrees]_vars
(***************************************************************************)
(* theorem_refactor.py: refactor_all(mm) run on the MM object a database    *)
(* has been read into.  The proofs stored under a name that contains        *)
(* 'new_theorem' are the templates; every other stored proof is copied and   *)
(* each part of the copy that matches a template is replaced by one step     *)
(* that cites the template's theorem.                                        *)
(***************************************************************************)
\* the labels of the input that contain 'new_theorem'
NewTheoremSpelled == {"new_theorem_0"}

\* `'new_theorem' in k` for a key k of mm.proofs
HasNewTheorem(name) == \E i \in 1..Len(name) : name[i] \in NewTheoremSpelled

\* 'refactored_' + refactored_proof.name
RefactoredName(name) == <<"refactored_">> \o name

RECURSIVE find_max_height(_)
\* ProofNode.find_max_height
find_max_height(node) ==
    IF IsLeaf(node) THEN 1
    ELSE LET hs == {find_max_height(Children(node)[i]) : i \in 1..Len(Children(node))}
         IN (CHOOSE h \in hs : \A g \in hs : g <= h) + 1

RECURSIVE PostOrderPaths(_)
\* the nodes of a tree in the order of get_post_order, each as the list of
\* child positions (in Children) that leads to it from the root
PostOrderPaths(node) ==
    Flatten([c \in 1..Len(Children(node)) |->
                LET below == PostOrderPaths(Children(node)[c])
                IN [n \in 1..Len(below) |-> <<c>> \o below[n]]])
    \o <<<<>>>>

RECURSIVE NodeAt(_, _)
\* the node a list of child positions leads to
NodeAt(node, path) ==
    IF path = <<>> THEN node ELSE NodeAt(Children(node)[Head(path)], Tail(path))

RECURSIVE ReplaceAt(_, _, _)
\* the tree with the node at path replaced
ReplaceAt(node, path, new) ==
    IF path = <<>> THEN new
    ELSE LET c == Head(path)
             m == Len(node.mand_vars)
         IN IF c <= m
            THEN [node EXCEPT !.mand_vars[c] = ReplaceAt(@, Tail(path), new)]
            ELSE [node EXCEPT !.hps[c - m] = ReplaceAt(@, Tail(path), new)]

\* get_post_order(proof_node)
get_post_order(node) ==
    LET paths == PostOrderPaths(node) IN [n \in 1..Len(paths) |-> NodeAt(node, paths[n])]

RECURSIVE follow_color(_, _)
\* follow_color(uncolored_node, colored_node): the uncoloured tree after it
follow_color(uncolored_node, colored_node) ==
    LET zip(mine, theirs) ==
            [i \in 1..Len(mine) |-> IF i <= Len(theirs) THEN follow_color(mine[i], theirs[i])
                                    ELSE mine[i]]
    IN [uncolored_node EXCEPT !.subst = colored_node.subst,
                              !.mand_vars = zip(uncolored_node.mand_vars, colored_node.mand_vars),
                              !.hps = zip(uncolored_node.hps, colored_node.hps)]

RECURSIVE SetLeaves(_, _)
\* the tree with the flag of every $e and $f leaf that get_leaves returns
\* set to flag
SetLeaves(node, flag) ==
    LET put(ch) == IF IsLeaf(ch)
                   THEN IF ch.type \in {"$e", "$f"} THEN [ch EXCEPT !.subst = flag] ELSE ch
                   ELSE SetLeaves(ch, flag)
    IN [node EXCEPT !.mand_vars = [i \in 1..Len(node.mand_vars) |-> put(node.mand_vars[i])],
                    !.hps = [i \in 1..Len(node.hps) |-> put(node.hps[i])]]

\* the loop of lines 119-124 (49-54): the template with its $e and $f leaves
\* coloured
ColorLeaves(matching_proof) == SetLeaves(matching_proof, TRUE)

\* the loop of lines 160-161 (108-109): the flags of the kept leaves are
\* taken back
UncolorLeaves(matching_proof) == SetLeaves(matching_proof, FALSE)

RECURSIVE Uncolored(_)
\* the loop of lines 158-159 (95-96) over colored_leaves, which are all the
\* flagged nodes of the tree: no node is flagged after it
Uncolored(node) ==
    [node EXCEPT !.subst = FALSE,
                 !.mand_vars = [i \in 1..Len(node.mand_vars) |-> Uncolored(node.mand_vars[i])],
                 !.hps = [i \in 1..Len(node.hps) |-> Uncolored(node.hps[i])]]

\* `any([e.subst for e in get_dfs(node)])`
AnyFlag(node) == \E n \in 1..Len(get_post_order(node)) : get_post_order(node)[n].subst

RECURSIVE IndicesFrom(_, _)
\* `[i for i in range(len(seq)) if test(seq[i])]` from index i on, tests
\* being the outcomes of the test on the elements of seq
IndicesFrom(tests, i) ==
    IF i > Len(tests) THEN <<>>
    ELSE (IF tests[i] THEN <<i>> ELSE <<>>) \o IndicesFrom(tests, i + 1)

\* `[i for i in range(len(seq)) if seq[i].type in types]`
IndicesOfType(seq, types) == IndicesFrom([n \in 1..Len(seq) |-> seq[n].type \in types], 1)

\* `[seq[i] for i in indices]`
Pick(seq, indices) == [n \in 1..Len(indices) |-> seq[indices[n]]]

\* leaves after line 126 (56): the $e and $f leaves of the template
KeptLeaves(matching_proof) ==
    Pick(get_leaves(matching_proof), IndicesOfType(get_leaves(matching_proof), {"$e", "$f"}))

\* colored_leaves of line 129 (59)
ColoredLeaves(visited) == Pick(visited, IndicesFrom([n \in 1..Len(visited) |-> visited[n].subst], 1))

\* unique_index_bucket[index] after the loop of lines 143-149 (73-79)
Bucket(leaves, leaves_mand_vars_indices, num_hps, mand_var) ==
    Pick(leaves_mand_vars_indices,
         IndicesFrom([n \in 1..(Len(leaves) - num_hps) |->
                         leaves[leaves_mand_vars_indices[n]].expr = mand_var], 1))

\* lines 130-149 (60-79) once both trees are coloured
Buckets(tmpl, orig, leaves, colored_leaves, entry) ==
    LET out(e) == [err |-> e, tmpl |-> tmpl, orig |-> orig, colored_leaves |-> colored_leaves,
                   leaves_hps_indices |-> IndicesOfType(leaves, {"$e"}),
                   buckets |-> IF e = ""
                               THEN [index \in 1..Len(entry.f_hyps) |->
                                        Bucket(leaves, IndicesOfType(leaves, {"$f"}),
                                               Len(entry.e_hyps), entry.f_hyps[index])]
                               ELSE <<>>]
    IN IF Len(colored_leaves) # Len(leaves) THEN out("AssertionError")
       ELSE IF entry = <<>> THEN out("KeyError")
       ELSE IF \E a, b \in 1..Len(entry.f_hyps) : a # b /\ entry.f_hyps[a] = entry.f_hyps[b]
       THEN out("AssertionError")
       ELSE IF Len(IndicesOfType(leaves, {"$e"})) # Len(entry.e_hyps) THEN out("AssertionError")
       ELSE out("")

\* lines 127-149 (57-79) once the leaves of the template are coloured
Followed(orig, tmpl, lbls) ==
    Buckets(tmpl, orig, KeptLeaves(tmpl), ColoredLeaves(get_post_order(orig)),
            IF Len(tmpl.name) = 1 /\ tmpl.name[1] \in DOMAIN lbls THEN lbls[tmpl.name[1]]
            ELSE <<>>)

\* lines 115-149 (45-79), shared by additional_check and
\* refactor_proof_single: both trees after the colouring, the coloured nodes
\* of the original, the indices of the $e leaves and the buckets.  err is the
\* exception raised on the way ("" for none)
Colouring(original_node, matching_proof, lbls) ==
    IF AnyFlag(original_node) \/ AnyFlag(matching_proof)
    THEN [err |-> "AssertionError", tmpl |-> matching_proof, orig |-> original_node,
          colored_leaves |-> <<>>, leaves_hps_indices |-> <<>>, buckets |-> <<>>]
    ELSE Followed(follow_color(original_node, ColorLeaves(matching_proof)),
                  ColorLeaves(matching_proof), lbls)

\* `len(set(expressions)) == 1` of lines 153-154 (83-84) for every bucket
OneExpression(c) ==
    \A index \in 1..Len(c.buckets) :
        Cardinality({c.colored_leaves[c.buckets[index][n]].expr :
                        n \in 1..Len(c.buckets[index])}) = 1

\* lines 150-162 of additional_check after the colouring c: [err, res] and
\* both trees
Checked(c) ==
    IF c.err # ""
    THEN [err |-> c.err, res |-> FALSE, tmpl |-> c.tmpl, node |-> c.orig]
    ELSE [err |-> "", res |-> OneExpression(c), tmpl |-> UncolorLeaves(c.tmpl),
          node |-> Uncolored(c.orig)]

\* the check accepts whatever stands at the leaves of the pattern
additional_check_accepts(original_node, matching_proof, lbls) ==
    [err |-> "", res |-> TRUE, tmpl |-> matching_proof, node |-> original_node]

\* additional_check(original_node, matching_proof, labels): [err, res] and
\* both trees after it
additional_check(original_node, matching_proof, lbls) ==
    Checked(Colouring(original_node, matching_proof, lbls))

\* `[colored_leaves[i] for i in indices]`, each uncoloured by lines 95-96
NeededLeaves(colored_leaves, indices) ==
    [n \in 1..Len(indices) |-> [colored_leaves[indices[n]] EXCEPT !.subst = FALSE]]

\* lines 104-107 left out: the matched node keeps its label and its children
Rewritten_checks_only(c, name) ==
    IF c.err # "" THEN [err |-> c.err, tmpl |-> c.tmpl, node |-> c.orig]
    ELSE IF ~OneExpression(c) THEN [err |-> "AssertionError", tmpl |-> c.tmpl, node |-> c.orig]
    ELSE [err |-> "", tmpl |-> UncolorLeaves(c.tmpl), node |-> Uncolored(c.orig)]

\* lines 108-109 left out: the leaves of the template stay coloured
Rewritten_template_colored(c, name) ==
    IF c.err # "" THEN [err |-> c.err, tmpl |-> c.tmpl, node |-> c.orig]
    ELSE IF ~OneExpression(c) THEN [err |-> "AssertionError", tmpl |-> c.tmpl, node |-> c.orig]
    ELSE [err |-> "", tmpl |-> c.tmpl,
          node |-> [c.orig EXCEPT
                       !.subst = FALSE,
                       !.mand_vars = NeededLeaves(c.colored_leaves,
                                                  [index \in 1..Len(c.buckets) |->
                                                      c.buckets[index][1]]),
                       !.hps = NeededLeaves(c.colored_leaves, c.leaves_hps_indices),
                       !.label = name[1],
                       !.type = "$p"]]

\* lines 80-109 of refactor_proof_single after the colouring c: err and both
\* trees
Rewritten(c, name) ==
    IF c.err # "" THEN [err |-> c.err, tmpl |-> c.tmpl, node |-> c.orig]
    ELSE IF ~OneExpression(c) THEN [err |-> "AssertionError", tmpl |-> c.tmpl, node |-> c.orig]
    ELSE [err |-> "", tmpl |-> UncolorLeaves(c.tmpl),
          node |-> [c.orig EXCEPT
                       !.subst = FALSE,
                       !.mand_vars = NeededLeaves(c.colored_leaves,
                                                  [index \in 1..Len(c.buckets) |->
                                                      c.buckets[index][1]]),
                       !.hps = NeededLeaves(c.colored_leaves, c.leaves_hps_indices),
                       !.label = name[1],
                       !.type = "$p"]]

\* refactor_proof_single(original_node, matching_proof, labels): err and
\* both trees after it
refactor_proof_single(original_node, matching_proof, lbls) ==
    Rewritten(Colouring(original_node, matching_proof, lbls), matching_proof.name)

RECURSIVE MatchBelow(_, _, _)
RECURSIVE MatchChildren(_, _, _, _)
\* the labels are compared at every pattern node, the $e and $f leaves
\* included
MatchBelow_same_label(original_node, matching_node, lbls) ==
    IF matching_node.label \notin DOMAIN lbls THEN "KeyError"
    ELSE IF original_node.label # matching_node.label THEN "none"
    ELSE IF lbls[matching_node.label].typ \in {"$e", "$f"}
    THEN IF IsLeaf(matching_node) THEN "match" ELSE "AssertionError"
    ELSE IF \/ Len(matching_node.mand_vars) # Len(original_node.mand_vars)
            \/ Len(matching_node.hps) # Len(original_node.hps)
    THEN "AssertionError"
    ELSE MatchChildren(Children(original_node), Children(matching_node), lbls, 1)

\* match_theorem_current_node below the call of counter 0, where
\* additional_check is not run: "match" (original_node is returned), "none"
\* (None is returned) or the exception raised
MatchBelow(original_node, matching_node, lbls) ==
    IF matching_node.label \notin DOMAIN lbls THEN "KeyError"
    ELSE IF lbls[matching_node.label].typ \in {"$a", "$p"}
    THEN IF original_node.label # matching_node.label THEN "none"
         ELSE IF \/ Len(matching_node.mand_vars) # Len(original_node.mand_vars)
                 \/ Len(matching_node.hps) # Len(original_node.hps)
         THEN "AssertionError"
         ELSE MatchChildren(Children(original_node), Children(matching_node), lbls, 1)
    ELSE IF lbls[matching_node.label].typ \in {"$e", "$f"}
    THEN IF IsLeaf(matching_node) THEN "match" ELSE "AssertionError"
    ELSE "NotImplementedError"

\* the two loops of lines 172-179 from child c on
MatchChildren(mine, theirs, lbls, c) ==
    IF c > Len(theirs) THEN "match"
    ELSE LET r == MatchBelow(mine[c], theirs[c], lbls)
         IN IF r # "match" THEN r ELSE MatchChildren(mine, theirs, lbls, c + 1)

\* match_theorem_current_node(original_node, matching_node, labels, 0):
\* [err, res] (res: something else than None is returned) and both trees
\* after it; r is what the recursion finds
Matched(original_node, matching_node, lbls, r) ==
    IF r = "match" /\ lbls[matching_node.label].typ \in {"$a", "$p"}
    THEN additional_check(original_node, matching_node, lbls)
    ELSE [err |-> IF r \in {"match", "none"} THEN "" ELSE r, res |-> r = "match",
          tmpl |-> matching_node, node |-> original_node]

match_theorem_current_node(original_node, matching_node, lbls) ==
    Matched(original_node, matching_node, lbls, MatchBelow(original_node, matching_node, lbls))

(***************************************************************************)
(* refactor_all(mm)                                                         *)
(***************************************************************************)
RECURSIVE InOrder(_, _)
\* the names of keys by increasing rank, names of one rank in some order
InOrder(keys, rank) ==
    IF keys = {} THEN <<>>
    ELSE LET first == CHOOSE k \in keys : \A o \in keys : rank[k] <= rank[o]
         IN <<first>> \o InOrder(keys \ {first}, rank)

\* all_original_proofs (line 197), as the names the proofs are stored under
OriginalProofs(prfs) ==
    InOrder({k \in DOMAIN prfs : ~HasNewTheorem(k)}, [k \in DOMAIN prfs |-> 0])

\* all_new_proofs after lines 198-201, as the names the proofs are stored
\* under: the templates higher than 2, by the length of their summaries
NewProofs(prfs) ==
    InOrder({k \in DOMAIN prfs : HasNewTheorem(k) /\ find_max_height(prfs[k].roots[1]) > 2},
            [k \in DOMAIN prfs |-> Len(summarize_proof(prfs[k].roots[1]))])

\* `refactored_proof = copy.deepcopy(all_original_proofs[i])` with its new
\* name (lines 205-206)
CopyOf(prfs, name) == [prfs[name].roots[1] EXCEPT !.name = RefactoredName(name)]

\* the state of refactor_all at `for i in ...` with originals[i] copied
AtOriginal(r, prfs, i) ==
    [r EXCEPT !.i = i, !.j = 1, !.count = 0,
              !.refactored_proof = IF i <= Len(r.originals)
                                   THEN CopyOf(prfs, r.originals[i]) ELSE <<>>]

\* refactor_all(mm) is called after mm.read has returned (main, lines
\* 239-251); lines 195-203 and the first copy
RefactorBegin ==
    /\ fam \in RefactorFamilies
    /\ rd = "done" /\ rf.at = "idle"
    /\ IF \E k \in DOMAIN proofs : HasNewTheorem(k) /\ ~proofs[k].single
       THEN rf' = [rf EXCEPT !.at = "raised", !.raised = "AttributeError", !.before = proofs]
       ELSE rf' = AtOriginal([rf EXCEPT !.at = "running", !.before = proofs,
                                        !.originals = OriginalProofs(proofs),
                                        !.templates = NewProofs(proofs)], proofs, 1)
    /\ UNCHANGED <<fs, labels, proofs, current_subproof_count, threshold,
                   raw_proof_max_length, fam, dec, tk, tr, pos, nstmt, rd, err, cur, vc,
                   call, boundNow>>

\* the outcome m of match_theorem_current_node on the node at path
MatchAt(refactored_proof, path, m) ==
    [err |-> m.err, hit |-> m.res, path |-> path, tmpl |-> m.tmpl,
     tree |-> ReplaceAt(refactored_proof, path, m.node)]

RECURSIVE FirstMatch(_, _, _, _, _)
RECURSIVE MatchedAt(_, _, _, _, _, _)
\* the loop `for k in range(len(refactored_proof_list))` of lines 213-216
\* from node k on, up to the first node that matches: [err, hit, path] and
\* both trees then
FirstMatch(refactored_proof, paths, new_proof, lbls, k) ==
    IF k > Len(paths)
    THEN [err |-> "", hit |-> FALSE, path |-> <<>>, tmpl |-> new_proof,
          tree |-> refactored_proof]
    ELSE MatchedAt(refactored_proof, paths, new_proof, lbls, k,
                   match_theorem_current_node(NodeAt(refactored_proof, paths[k]), new_proof,
                                              lbls))

\* the same once match_theorem_current_node has ended with m on node k
MatchedAt(refactored_proof, paths, new_proof, lbls, k, m) ==
    IF m.err # "" \/ m.res THEN MatchAt(refactored_proof, paths[k], m)
    ELSE FirstMatch(refactored_proof, paths, new_proof, lbls, k + 1)

\* lines 219-228 after refactor_proof_single has ended with single on the
\* node found: the set of [rf, tmpl] the turn can end with
Verified(r, lbls, fstack, found, single, rewritten) ==
    IF single.err # ""
    THEN {[rf |-> [r EXCEPT !.at = "raised", !.raised = single.err,
                            !.refactored_proof = rewritten],
           tmpl |-> single.tmpl]}
    ELSE {[rf |-> [r EXCEPT !.at = IF v.err = "" THEN "running" ELSE "raised",
                            !.raised = IF v.err \in ReplayErrors THEN "NotImplementedError"
                                       ELSE v.err,
                            !.count = IF v.err = "" THEN @ + 1 ELSE @,
                            !.refactored_proof = rewritten,
                            !.last = [tried |-> TRUE, kept |-> v.err = "",
                                      of |-> r.originals[r.i], by |-> r.templates[r.j],
                                      before |-> r.refactored_proof, after |-> rewritten,
                                      path |-> found.path]],
            tmpl |-> single.tmpl]
            : v \in RunVerify(lbls, fstack, rewritten.expr, summarize_proof(rewritten),
                              "other", <<>>)}

\* lines 216-228 on the node found
Refactored(r, lbls, fstack, found, single) ==
    Verified(r, lbls, fstack, found, single, ReplaceAt(found.tree, found.path, single.node))

\* lines 211-231 after the loop over the nodes has ended with found
Attempted(r, lbls, fstack, found) ==
    IF found.err # ""
    THEN {[rf |-> [r EXCEPT !.at = "raised", !.raised = found.err,
                            !.refactored_proof = found.tree],
           tmpl |-> found.tmpl]}
    ELSE IF ~found.hit
    THEN {[rf |-> [r EXCEPT !.j = @ + 1], tmpl |-> found.tmpl]}
    ELSE Refactored(r, lbls, fstack, found,
                    refactor_proof_single(NodeAt(found.tree, found.path), found.tmpl, lbls))

\* one turn of `while not current_proof_finish_refactor` (lines 210-231):
\* the first node of the copy that matches the template is rewritten and the
\* copy verified in probe mode; without a match the loop of j goes on
RefactorAttempt ==
    /\ rf.at = "running"
    /\ rf.i <= Len(rf.originals) /\ rf.j <= Len(rf.templates)
    /\ \E o \in Attempted(rf, labels, fs,
                          FirstMatch(rf.refactored_proof, PostOrderPaths(rf.refactored_proof),
                                     proofs[rf.templates[rf.j]].roots[1], labels, 1)) :
         /\ rf' = o.rf
         /\ proofs' = [proofs EXCEPT ![rf.templates[rf.j]].roots[1] = o.tmpl]
    /\ UNCHANGED <<fs, labels, current_subproof_count, threshold, raw_proof_max_length, fam,
                   dec, tk, tr, pos, nstmt, rd, err, cur, vc, call, boundNow>>

\* the end of the loop of j for one original (lines 232-233) and the copy of
\* the next (lines 205-206)
RefactorNext ==
    /\ rf.at = "running"
    /\ rf.i <= Len(rf.originals) /\ rf.j > Len(rf.templates)
    /\ rf' = AtOriginal([rf EXCEPT !.refactored_theorems =
                                      IF rf.count > 0 THEN Append(@, rf.refactored_proof)
                                      ELSE @],
                        proofs, rf.i + 1)
    /\ UNCHANGED <<fs, labels, proofs, current_subproof_count, threshold,
                   raw_proof_max_length, fam, dec, tk, tr, pos, nstmt, rd, err, cur, vc,
                   call, boundNow>>

\* `return refactored_theorems` (line 236)
RefactorReturn ==
    /\ rf.at = "running"
    /\ rf.i > Len(rf.originals)
    /\ rf' = [rf EXCEPT !.at = "returned"]
    /\ UNCHANGED <<fs, labels, proofs, current_subproof_count, threshold,
                   raw_proof_max_length, fam, dec, tk, tr, pos, nstmt, rd, err, cur, vc,
                   call, boundNow>>

\* MM(0, -1) before a database of one of the families of theorem_refactor.py
\* is read
InitRefactor ==
    /\ fs = <<>>
    /\ labels = EmptyMap
    /\ proofs = EmptyMap
    /\ current_subproof_count = NoCount
    /\ fam \in RefactorFamilies
    /\ threshold = Config(fam)[1]
    /\ raw_proof_max_length = Config(fam)[2]
    /\ pos = 0 /\ nstmt = 0
    /\ rd = "init" /\ err = ""
    /\ cur = CurIdle /\ vc = VcOff /\ call = NoCall /\ boundNow = {}
    /\ dec = NoDec /\ tk = NoToks /\ tr = NoTrees
    /\ rf = NoRefactor

\* the statements of the families' databases, then refactor_all
NextRefactor ==
    \/ BeginRead \/ ReadC \/ ReadV \/ ReadF \/ ReadE \/ ReadA \/ ReadOpen \/ ReadClose
    \/ ReadEOF \/ ReadP \/ VerifyBegin \/ VerifyStep \/ VerifyEnd \/ ExpandBegin \/ BindP
    \/ RefactorBegin \/ RefactorAttempt \/ RefactorNext \/ RefactorReturn

SpecRefactor == InitRefactor /\ [][NextRefactor]_vars

(***************************************************************************)
(* Properties.  Trees are inspected through their sets of nodes.            *)
(***************************************************************************)
RECURSIVE Nodes(_)
\* the nodes of the tree below and including node
Nodes(node) ==
    {node} \cup UNION {Nodes(node.mand_vars[i]) : i \in 1..Len(node.mand_vars)}
           \cup UNION {Nodes(node.hps[i]) : i \in 1..Len(node.hps)}

\* the trees of the proof table
StoredRoots == UNION {{proofs[n].roots[i] : i \in 1..Len(proofs[n].roots)} : n \in DOMAIN proofs}

\* the call of verify_custom made from outside read has returned (True, root)
CallSucceeded == call.at = "end" /\ call.ret = "True"

\* the summaries of the nodes of an operand stack, bottom first
StackSummary(stack) == Flatten([i \in 1..Len(stack) |-> summarize_proof(stack[i])])

\* C1: whenever the replay of a label sequence succeeds -- verify_custom with
\* num_expand = 0 in either mode, or the loop of propagate on the same labels --
\* summarize_proof of the root is that label sequence, label for label; while
\* the replay runs, the summaries of the operand stack spell the labels
\* consumed so far.
C1_SummaryIsProof ==
    /\ vc.on => StackSummary(vc.stack) = vc.proof
    /\ CallSucceeded => summarize_proof(call.stack[1]) = call.proof
    /\ CallSucceeded =>
         \A r \in RunLabels(labels, fs, <<>>, call.proof, 1, "error", <<>>, 0) :
            r.err = "" /\ Len(r.stack) = 1 => summarize_proof(r.stack[1]) = call.proof
    /\ cur.phase \in {"expand", "bind"} =>
         summarize_proof(proofs[<<cur.label>>].roots[1]) = cur.proof

\* C1 witness: a call returned True for a proof that applies an assertion to
\* two different operands
C1_Witness ==
    /\ CallSucceeded
    /\ Len(call.proof) >= 3
    /\ Len(call.stack[1].mand_vars) = 2
    /\ call.stack[1].mand_vars[1].label # call.stack[1].mand_vars[2].label

\* C2: when verify_custom (num_expand = 0) reports success, in strict or in
\* probe mode, the operand stack held exactly one node after the last label
\* and the expr of that node is the stat of the caller; a strict call whose
\* single final node has another expr raises the conclusion mismatch.
C2_SuccessProvesStat ==
    /\ call.ret = "True" =>
         call.at = "end" /\ Len(call.stack) = 1 /\ call.stack[1].expr = call.stat
    /\ (call.at = "end" /\ call.mode = "error" /\ Len(call.stack) = 1
           /\ call.stack[1].expr # call.stat) =>
         call.ret = "raise" /\ call.raised = "ConclusionMismatch"
    /\ cur.phase \in {"expand", "bind"} =>
         proofs[<<cur.label>>].roots[1].expr = cur.ass.stat

\* C2 witness: a probe-mode call returned True for a proof with an assertion
\* step
C2_Witness ==
    /\ CallSucceeded
    /\ call.mode = "other"
    /\ call.stack[1].type = "$a"
    /\ call.stack[1].expr = call.stat

\* the symbols the input declares as variables
InputVars ==
    UNION {TokSet(st.stat) :
             st \in {s \in Menu(fam) \cup {Opening(fam)[i] : i \in 1..Len(Opening(fam))} :
                        s.kw = "$v"}}

\* the substitution a $a/$p node of a tree was built with: mandatory variable
\* -> expr[1:] of the child proved for it
NodeSubst(node) ==
    LET mand_var == node.data.f_hyps
    IN [v \in {mand_var[i][2] : i \in 1..Len(mand_var)} |->
           Tail(node.mand_vars[CHOOSE i \in 1..Len(mand_var) :
                                  /\ mand_var[i][2] = v
                                  /\ \A k \in 1..Len(mand_var) : mand_var[k][2] = v => k <= i].expr)]

\* no disjoint pair of the assertion of node is substituted by two expressions
\* that share a variable
DisjointInTree(node) ==
    \A pr \in node.data.dvs :
       (pr[1] \in DOMAIN NodeSubst(node) /\ pr[2] \in DOMAIN NodeSubst(node)) =>
          TokSet(NodeSubst(node)[pr[1]]) \cap TokSet(NodeSubst(node)[pr[2]]) \cap InputVars = {}

\* C3: in strict mode a step that substitutes, for a disjoint pair of its
\* assertion, two expressions with a common variable raises the disjoint
\* violation, in every state verify_custom can be called in: no strict call
\* returns a tree with such a step, and no tree with such a step is stored.
C3_StrictRejectsSharedVariable ==
    /\ (CallSucceeded /\ call.mode = "error") =>
          \A n \in Nodes(call.stack[1]) : n.type \in {"$a", "$p"} => DisjointInTree(n)
    /\ \A root \in StoredRoots :
          \A n \in Nodes(root) : n.type \in {"$a", "$p"} => DisjointInTree(n)

\* C4: strict and probe mode run the same machine.  For the label table,
\* frame stack, stat and labels of a call made with name '' (num_expand = 0):
\* a probe call returns True exactly when the strict call on the same
\* arguments completes, and returns False exactly when the strict call raises
\* a proof-replay violation; likewise for a strict call and the probe call on
\* its arguments.
C4_ProbeAgreesWithStrict ==
    call.at \in {"step", "end"} =>
       LET other == IF call.mode = "error" THEN "other" ELSE "error"
           strictOk(e) == e = ""
           strictViolation(e) == e \in ReplayErrors
       IN \A r \in RunVerify(labels, fs, call.stat, call.proof, other, <<>>) :
             IF call.mode = "other"
             THEN /\ call.ret = "True" <=> strictOk(r.err)
                  /\ call.ret = "False" <=> strictViolation(r.err)
             ELSE /\ call.ret = "True" <=> r.err = ""
                  /\ (call.ret = "raise" /\ call.raised \in ReplayErrors)
                        <=> r.err \in ReplayErrors

\* the number of operands the assertion bound to label pops
Operands(label) == Len(labels[label].f_hyps) + Len(labels[label].e_hyps)

\* the running verify_custom has consumed one more label and goes on
C5_StepTaken ==
    (vc.on /\ vc'.on /\ vc'.proof # vc.proof) =>
       \E label \in DOMAIN labels :
          LET n == Operands(label)
              below == Len(vc.stack) - n
              top == vc'.stack[Len(vc'.stack)]
          IN /\ vc'.proof = Append(vc.proof, label)
             /\ top.label = label
             /\ IF labels[label].typ \in {"$e", "$f"}
                THEN /\ vc'.stack = Append(vc.stack, top)
                     /\ IsLeaf(top)
                     /\ top.expr = labels[label].stat
                ELSE /\ below >= 0
                     /\ vc'.stack = Append(SubSeq(vc.stack, 1, below), top)
                     /\ top.mand_vars \o top.hps = SubSeq(vc.stack, below + 1, Len(vc.stack))

\* a call from outside read has stopped at the label last in its proof
C5_StepFailed ==
    (vc.on /\ ~vc'.on /\ call'.at = "step") =>
       LET label == call'.proof[Len(call'.proof)]
       IN (/\ label \in DOMAIN labels
           /\ labels[label].typ \in {"$a", "$p"}
           /\ Len(vc.stack) < Operands(label)) =>
             IF vc.mode = "error"
             THEN call'.ret = "raise" /\ call'.raised = "StackUnderflow"
             ELSE call'.ret = "False"

\* what the next label, whichever it is, does to the operand stack as it is
C5_NextLabel ==
    vc.on =>
       \A label \in DOMAIN labels :
       \A o \in StepLabel(labels, fs, vc.stack, label, vc.mode, vc.name) :
          IF labels[label].typ \in {"$e", "$f"}
          THEN o.err = "" /\ Len(o.stack) = Len(vc.stack) + 1
          ELSE IF Len(vc.stack) < Operands(label)
          THEN o.err = "StackUnderflow"
          ELSE o.err = "" => Len(o.stack) = Len(vc.stack) - Operands(label) + 1

\* the proof that consists of the floating hypothesis wp only
C5_OnlyWp ==
    (call.at = "end" /\ call.proof = <<"wp">>
        /\ labels["wp"] = HypEntry("$f", <<"wff", "p">>)) =>
       Len(call.stack) = 1 /\ call.stack[1].expr = <<"wff", "p">>

\* C5: stack discipline of the replay.  Labels are consumed left to right, one
\* per step; a $e/$f label pushes one leaf whose expr is the data of the label
\* and pops nothing (the proof `wp` ends with the single node of expr
\* wff p); a $a/$p label that needs n operands fails with stack underflow when
\* fewer than n nodes are on the stack, and a step that succeeds replaces
\* exactly the top n nodes by one node whose children they become, the nodes
\* below staying as they were.
C5_StackDiscipline ==
    /\ [](C5_NextLabel /\ C5_OnlyWp)
    /\ [][C5_StepTaken /\ C5_StepFailed]_vars

\* C5 witness: an assertion step has replaced its two operands by one node and
\* left the node below them on the stack
C5_Witness ==
    /\ vc.on
    /\ Len(vc.stack) = 2
    /\ IsLeaf(vc.stack[1])
    /\ vc.stack[2].type = "$a"
    /\ Len(vc.stack[2].mand_vars) = 2

\* node is built as its assertion says: operands of the right typecodes, the
\* hypotheses instantiated by the substitution they give, and its expr the
\* result instantiated; a $e/$f node has no children
WellBuilt(node) ==
    IF node.type \in {"$e", "$f"} THEN IsLeaf(node)
    ELSE LET mand_var == node.data.f_hyps
             hyp == node.data.e_hyps
         IN /\ Len(node.mand_vars) = Len(mand_var)
            /\ Len(node.hps) = Len(hyp)
            /\ \A i \in 1..Len(mand_var) :
                  /\ node.mand_vars[i].expr # <<>>
                  /\ node.mand_vars[i].expr[1] = mand_var[i][1]
            /\ \A j \in 1..Len(hyp) :
                  node.hps[j].expr = apply_subst(hyp[j], NodeSubst(node))
            /\ node.expr = apply_subst(node.data.stat, NodeSubst(node))

\* what the next label does in strict mode when an operand has the wrong
\* typecode or is not the instantiated hypothesis
C6_StrictRaises ==
    (vc.on /\ vc.mode = "error") =>
       \A label \in {l \in DOMAIN labels : labels[l].typ \in {"$a", "$p"}} :
          LET mand_var == labels[label].f_hyps
              hyp == labels[label].e_hyps
              nv == Len(mand_var)
              below == Len(vc.stack) - Operands(label)
              op(i) == vc.stack[below + i]
              s == [v \in {mand_var[i][2] : i \in 1..nv} |->
                      Tail(op(CHOOSE i \in 1..nv :
                              /\ mand_var[i][2] = v
                              /\ \A k \in 1..nv : mand_var[k][2] = v => k <= i).expr)]
              typeBad == \E i \in 1..nv : op(i).expr = <<>> \/ op(i).expr[1] # mand_var[i][1]
              hypBad == \E j \in 1..Len(hyp) : op(nv + j).expr # apply_subst(hyp[j], s)
          IN below >= 0 =>
               \A o \in StepLabel(labels, fs, vc.stack, label, vc.mode, vc.name) :
                  /\ typeBad => o.err \in {"TypeMismatch", "IndexError"}
                  /\ (~typeBad /\ hypBad) => o.err \in {"HypothesisMismatch", "DisjointViolation"}

\* C6: in every tree a successful verify_custom or propagate has built -- the
\* tree returned to a caller, the trees of the proof table, the nodes on the
\* operand stack of a running verification -- each $a/$p node has as i-th
\* mandatory-variable child a node whose expr starts with the i-th typecode,
\* as j-th hypothesis child a node whose expr is the j-th hypothesis under the
\* substitution s(v_i) = expr[1:] of the i-th child, and as expr the result
\* under s; each $e/$f node has no children.  In strict mode an operand of the
\* wrong typecode or a hypothesis that does not match raises.
C6_TreesWellBuilt ==
    /\ CallSucceeded => \A n \in Nodes(call.stack[1]) : WellBuilt(n)
    /\ \A root \in StoredRoots : \A n \in Nodes(root) : WellBuilt(n)
    /\ vc.on => \A i \in 1..Len(vc.stack) : \A n \in Nodes(vc.stack[i]) : WellBuilt(n)
    /\ C6_StrictRaises

\* C6 witness: a call returned a tree whose root has a mandatory-variable
\* child and a hypothesis child
C6_Witness ==
    /\ CallSucceeded
    /\ call.stack[1].mand_vars # <<>>
    /\ call.stack[1].hps # <<>>

\* the call ended with the stack-not-singleton failure: MMError in strict
\* mode, a False result in probe mode
EndedNotSingleton ==
    IF call.mode = "error"
    THEN call.ret = "raise" /\ call.raised = "StackNotSingleton"
    ELSE call.ret = "False"

\* C7: a verification whose operand stack holds, after all labels, a number
\* of nodes other than one -- zero included: the proof has no tokens, or is
\* the compressed form that decompresses to no labels -- ends with the
\* stack-not-singleton failure: MMError in strict mode, False in probe mode,
\* and no other exception.
C7_NotSingletonFails ==
    /\ (call.at = "end" /\ Len(call.stack) # 1) => EndedNotSingleton
    /\ call.at = "begin" => EndedNotSingleton

\* the labels of the $f and $e hypotheses of the frames of the active chain
ActiveHypLabels(fstack) ==
    UNION {{fstack[i].f_labels[v] : v \in DOMAIN fstack[i].f_labels}
              \cup {fstack[i].e_labels[s] : s \in DOMAIN fstack[i].e_labels}
             : i \in 1..Len(fstack)}

\* C8: a frame that is popped takes its declarations with it: the $f and $e
\* hypotheses of a closed scope are usable by no later proof, so the proof of
\* a $p statement that verify_custom has accepted names, of the $e/$f labels,
\* only those of the scopes open at the statement.
C8_ClosedScopeUnusable ==
    cur.phase \in {"expand", "bind"} =>
       \A i \in 1..Len(cur.proof) :
          labels[cur.proof[i]].typ \in {"$e", "$f"} => cur.proof[i] \in ActiveHypLabels(fs)

\* C9: reading is one forward pass.  While the proof of T is verified and
\* expanded the statement of T has bound nothing yet, T included, so every
\* label the proof resolves was bound by an earlier statement; no proof
\* accepted for T has a step T; and no expansion made for T replaces a step
\* by the proof-table entry of T, which T's own verification wrote.
C9_ForwardOnly ==
    /\ cur.phase \in {"verify", "expand"} => cur.label \notin boundNow
    /\ (vc.on /\ vc.who = "read") =>
          \A i \in 1..Len(vc.proof) : vc.proof[i] \notin boundNow
    /\ \A name \in DOMAIN proofs :
          (Len(name) = 1 /\ proofs[name].single) =>
             name[1] \notin TokSet(summarize_proof(proofs[name].roots[1]))
    /\ \A name \in DOMAIN proofs : Len(name) = 4 => name[2] # name[4]

\* C10: no symbol is both a constant and a variable of the active chain and
\* none is declared in two frames of it; an add_c or add_v that fails leaves
\* the frame stack as it was.
C10_NoRedeclaration ==
    /\ \A tok \in UNION {fs[i].c \cup fs[i].v : i \in 1..Len(fs)} :
          ~(lookup_c(fs, tok) /\ lookup_v(fs, tok))
    /\ \A i, j \in 1..Len(fs) :
          i < j => (fs[i].c \cup fs[i].v) \cap (fs[j].c \cup fs[j].v) = {}
    /\ fs # <<>> =>
          \A tok \in UNION {fs[i].c \cup fs[i].v : i \in 1..Len(fs)} :
             /\ ~add_c(fs, tok).ok => add_c(fs, tok).fs = fs
             /\ ~add_v(fs, tok).ok => add_v(fs, tok).fs = fs


(***************************************************************************)
(* C11 - C12: the lookups and make_assertion of the FrameStack, on the      *)
(* frame stacks MM.read builds (SpecDecompress)                             *)
(***************************************************************************)
\* the tokens and the statements the hypotheses of the databases are about
HypVars == {"p", "q", "wff"}
HypStmts == {<<"wff", "p">>, <<"wff", "q">>, <<"wff", "p", "q">>}

\* the frames of the chain whose table (f_labels or e_labels) has the key
FramesWith(fstack, table(_), key) == {i \in 1..Len(fstack) : key \in DOMAIN table(fstack[i])}

\* r is what a lookup owes: the binding of the key in the innermost frame
\* that has one, the key-not-found error exactly when no frame has one
InnermostBinding(fstack, table(_), key, r) ==
    LET has == FramesWith(fstack, table, key) IN
    /\ r.ok <=> has # {}
    /\ has # {} => \E i \in has : /\ \A k \in has : k <= i
                                  /\ r.label = table(fstack[i])[key]

\* C11: lookup_f(var) returns the label of the $f hypothesis for var of the
\* innermost frame of the active chain that has one, and fails with the
\* key-not-found error exactly when no frame of the chain has a $f for var;
\* lookup_e(stmt) does the same for the essential hypotheses, keyed by the
\* token tuple.  decompress_proof, which calls them for the mandatory
\* hypotheses of the statement, starts its label list with these labels.
C11_LookupInnermost ==
    LET f_of(fr) == fr.f_labels
        e_of(fr) == fr.e_labels
        ass == make_assertion(fs, dec.stat)
    IN
    /\ \A var \in HypVars : InnermostBinding(fs, f_of, var, lookup_f(fs, var))
    /\ \A stmt \in HypStmts : InnermostBinding(fs, e_of, stmt, lookup_e(fs, stmt))
    /\ (dec.ran /\ dec.labels # <<>>) =>
          /\ \A i \in 1..Len(ass.f_hyps) :
                InnermostBinding(fs, f_of, ass.f_hyps[i][2],
                                 [ok |-> TRUE, label |-> dec.labels[i]])
          /\ \A j \in 1..Len(ass.e_hyps) :
                InnermostBinding(fs, e_of, ass.e_hyps[j],
                                 [ok |-> TRUE, label |-> dec.labels[Len(ass.f_hyps) + j]])

\* decompress_proof has looked up p, which has a $f in two nested frames,
\* and q, which has none
C11_Witness ==
    /\ dec.ran /\ dec.labels # <<>>
    /\ Len(fs) = 2
    /\ "p" \in DOMAIN fs[1].f_labels /\ "p" \in DOMAIN fs[2].f_labels
    /\ fs[1].f_labels["p"] # fs[2].f_labels["p"]
    /\ dec.labels[1] = fs[2].f_labels["p"]
    /\ ~lookup_f(fs, "q").ok
    /\ <<"wff", "p">> \in DOMAIN fs[1].e_labels /\ <<"wff", "p">> \in DOMAIN fs[2].e_labels

\* the variables of the active chain that occur in an essential hypothesis
\* of the chain or in stat: the mandatory variables
MandatoryVars(fstack, stat) ==
    LET hyps == UNION {{fstack[i].e[j] : j \in 1..Len(fstack[i].e)} : i \in 1..Len(fstack)}
    IN {tok \in UNION {TokSet(s) : s \in hyps \cup {stat}} :
           \E i \in 1..Len(fstack) : tok \in fstack[i].v}

\* ass is what make_assertion(stat) owes on the chain fstack
AssertionOf(fstack, stat, ass) ==
    LET mandatory == MandatoryVars(fstack, stat)
        floating == {v \in mandatory : \E i \in 1..Len(fstack) : v \in DOMAIN fstack[i].f_labels}
    IN
    /\ \A v \in floating :
          Cardinality({n \in 1..Len(ass.f_hyps) : ass.f_hyps[n][2] = v}) = 1
    /\ \A n \in 1..Len(ass.f_hyps) :
          /\ ass.f_hyps[n][2] \in floating
          /\ \E i \in 1..Len(fstack) : \E m \in 1..Len(fstack[i].f) :
                fstack[i].f[m] = <<ass.f_hyps[n][2], ass.f_hyps[n][1]>>
    /\ \A pr \in ass.dvs : pr[1] \in mandatory /\ pr[2] \in mandatory
    /\ \A i \in 1..Len(fstack) : \A j \in 1..Len(fstack[i].e) :
          \E n \in 1..Len(ass.e_hyps) : ass.e_hyps[n] = fstack[i].e[j]
    /\ Cardinality(UNION {{<<i, j>> : j \in 1..Len(fstack[i].e)} : i \in 1..Len(fstack)})
          = Len(ass.e_hyps)
    /\ ass.stat = stat

\* C12: make_assertion(stat) returns a mandatory-floating list with exactly
\* one (typecode, variable) entry for each mandatory variable (a variable of
\* the active chain that occurs in an essential hypothesis of the chain or in
\* stat) that has a $f in the chain, and no other entry: no variable twice,
\* even when it has a $f in two nested frames; a disjoint set with only pairs
\* of mandatory variables; an essential list with every $e of the chain.
\* Stated of the assertion of the $p statement being handled and of
\* make_assertion on the chain as it stands.
C12_AssertionShape ==
    /\ cur.phase # "idle" => AssertionOf(fs, cur.ass.stat, cur.ass)
    /\ fs # <<>> => \A stat \in HypStmts : AssertionOf(fs, stat, make_assertion(fs, stat))

\* the statement being handled has a variable with a $f in two nested
\* frames, and a disjoint pair
C12_Witness ==
    /\ cur.phase # "idle"
    /\ Len(fs) = 2
    /\ "p" \in DOMAIN fs[1].f_labels /\ "p" \in DOMAIN fs[2].f_labels
    /\ cur.ass.dvs # {}
    /\ cur.ass.f_hyps # <<>>
    /\ cur.ass.e_hyps # <<>>

(***************************************************************************)
(* C13 - C16: line 813 and decompress_proof on the proof of the $p          *)
(* statement (SpecDecompress)                                               *)
(***************************************************************************)
\* line 813 has run on an explicit proof: one whose first token is not '('
ExplicitRun == dec.ran /\ dec.proof.head # <<>> /\ dec.proof.head[1] # "("

\* decompress_proof has run on a proof `( labels ) characters` and got as far
\* as its characters
CompressedRun ==
    /\ dec.ran /\ dec.proof.head # <<>> /\ dec.proof.head[1] = "("
    /\ IndexOfParen(dec.proof.head) # 0
    /\ dec.raised # "KeyError"

\* the characters of the compressed part
CodeOf(proof) == Flatten(proof.code)

\* C13: decompression is idempotent on explicit proofs: a proof token list
\* whose first token is not '(' is returned unchanged, so the label list to
\* replay is the given list, and putting that list through line 813 again
\* changes nothing.
C13_ExplicitUnchanged ==
    ExplicitRun =>
       /\ dec.raised = ""
       /\ dec.out = dec.proof.head
       /\ LET again == ProofToReplay(fs, labels, dec.stat, [head |-> dec.out, code |-> <<>>])
          IN again.err = "" /\ again.out = dec.out

\* an explicit proof that has a parenthesis further on
C13_Witness ==
    /\ ExplicitRun
    /\ Len(dec.proof.head) = 2
    /\ dec.proof.head[2] \in {"(", ")"}

\* the characters that close a number, and those that only add a digit to it
IsClosing(ch) == Ord("A") <= Ord(ch) /\ Ord(ch) <= Ord("T")
IsOpen(ch) == Ord("U") <= Ord(ch) /\ Ord(ch) <= Ord("Y")

RECURSIVE RunValue(_, _)
\* the base-5 accumulation a := 5*a + (u - 'U' + 1), from 0, over the maximal
\* run of characters in U..Y that ends at position k (0 for the empty run)
RunValue(chars, k) ==
    IF k = 0 THEN 0
    ELSE IF ~IsOpen(chars[k]) THEN 0
    ELSE 5 * RunValue(chars, k - 1) + (Ord(chars[k]) - Ord("U") + 1)

\* the n-th smallest member of a set of positions
NthOf(S, n) == CHOOSE k \in S : Cardinality({j \in S : j < k}) = n - 1

\* C14: decoding of the character string: every maximal run of zero or more
\* characters in U..Y followed by one character c in A..T yields exactly one
\* integer, 20*a + (c - 'A' + 1) - 1 with a the base-5 accumulation over the
\* run; Z yields a back-reference marker and no integer; there are as many
\* integers as characters in A..T.
C14_DecodedRuns ==
    CompressedRun =>
       LET chars == CodeOf(dec.proof)
           closing == {k \in 1..Len(chars) : IsClosing(chars[k])}
           numbers == SelectSeq(dec.ints, LAMBDA x : x # -1)
       IN /\ Len(numbers) = Cardinality(closing)
          /\ Cardinality({i \in 1..Len(dec.ints) : dec.ints[i] = -1})
                = Cardinality({k \in 1..Len(chars) : chars[k] = "Z"})
          /\ \A n \in 1..Len(numbers) :
                LET k == NthOf(closing, n)
                IN numbers[n] = 20 * RunValue(chars, k - 1) + (Ord(chars[k]) - Ord("A") + 1) - 1

\* decompress_proof has run on `( ) ABZ` for a statement with the two
\* mandatory hypotheses wp and wq
ABZRun ==
    /\ dec.ran
    /\ dec.proof = [head |-> <<"(", ")">>, code |-> <<<<"A", "B", "Z">>>>]
    /\ dec.labels = <<"wp", "wq">>

\* C15 as stated: for ABZ with the labels [h0, h1] the decoded sequence is
\* [0, 1, back-reference] and the Z duplicates the prior single-label
\* subproof (h1) in the output label list.
C15_BackRefDuplicates ==
    ABZRun => dec.ints = <<0, 1, -1>> /\ dec.out = <<"wp", "wq", "wq">>

\* C15 amended: for ABZ with the labels [h0, h1] the decoded sequence is
\* [0, 1, back-reference]; the Z decodes no new integer and puts no label in
\* the output, which is [h0, h1]: it records the prior single-label subproof
\* (h1), and a later number past the labels (C here) is what puts h1 in the
\* output again.
C15_BackRefOnlyMarks ==
    ABZRun =>
       /\ dec.ints = <<0, 1, -1>>
       /\ dec.raised = ""
       /\ dec.out = <<"wp", "wq">>
       /\ decompress_proof(fs, labels, dec.stat,
                           [head |-> <<"(", ")">>, code |-> <<<<"A", "B", "Z">>, <<"C">>>>]).out
             = <<"wp", "wq", "wq">>

\* the run on ABZ has been made
C15_Witness == ABZRun /\ fam = "codes"

\* C16: a compressed proof whose character string ends with a run of U..Y
\* characters that no A..T character closes is malformed input:
\* decompression reports an error instead of returning a label list.
C16_UnclosedRunRejected ==
    (CompressedRun /\ CodeOf(dec.proof) # <<>>
                   /\ IsOpen(CodeOf(dec.proof)[Len(CodeOf(dec.proof))]))
       => dec.raised # ""

(***************************************************************************)
(* C17: file inclusion (SpecToks)                                           *)
(***************************************************************************)
\* C17: during one run of the reader every distinct canonical file path, the
\* top-level file included, is opened at most once: an include directive that
\* names a path that is open or was read already (the top-level file too,
\* directly or through a cycle of includes) opens nothing.
C17_OpenedOnce ==
    \A i \in 1..Len(tk.opened) : \A j \in 1..Len(tk.opened) :
       tk.opened[i] = tk.opened[j] => i = j

(***************************************************************************)
(* C18 .. C20: the expansion passes (Spec, family "expand")                 *)
(***************************************************************************)
\* C18: expansion preserves provability.  For a theorem T that passed strict
\* verification (its label is new: no earlier statement bound it), no pass of
\* verify_custom(stat, proof, T, num_expand=1) fails: the proof with the
\* stored proof of the selected $p step spliced in re-verifies in strict mode
\* and proves the statement of T, so that the expansion never makes the
\* reading of a valid database fail.
C18_ExpansionNeverFails ==
    [][(cur.phase = "expand" /\ cur.times # NoCount /\ cur.label \notin DOMAIN labels)
          => rd' # "failed"]_vars

RECURSIVE Unflagged(_)
\* no node of the tree has substituted = True
Unflagged(node) ==
    /\ ~node.subst
    /\ \A i \in 1..Len(node.mand_vars) : Unflagged(node.mand_vars[i])
    /\ \A i \in 1..Len(node.hps) : Unflagged(node.hps[i])

RECURSIVE SomeFlagged(_)
\* some node of the tree has substituted = True
SomeFlagged(node) ==
    \/ node.subst
    \/ \E i \in 1..Len(node.mand_vars) : SomeFlagged(node.mand_vars[i])
    \/ \E i \in 1..Len(node.hps) : SomeFlagged(node.hps[i])

\* C19: expansion does not mutate its sources.  A pass of
\* verify_custom(stat, proof, T, num_expand=1) leaves the stored non-expanded
\* tree of every theorem (the expanded X, T itself) as it was: same labels,
\* kinds, expressions and children, and substituted = False at every node.
C19_SourcesUntouched ==
    [][cur.phase = "expand" =>
          \A n \in DOMAIN proofs :
             proofs[n].single =>
                /\ n \in DOMAIN proofs'
                /\ proofs'[n] = proofs[n]
                /\ Unflagged(proofs'[n].roots[1])]_vars

\* a pass has expanded X in T and stored the coloured variant, X and T being
\* stored as single trees
C19_Witness ==
    /\ cur.phase = "expand" /\ cur.i >= 1
    /\ \E x \in {"th", "t2"} :
         /\ x # cur.label
         /\ <<x>> \in DOMAIN proofs /\ proofs[<<x>>].single
         /\ <<cur.label>> \in DOMAIN proofs /\ proofs[<<cur.label>>].single
         /\ ExpandName(x, <<cur.label>>) \in DOMAIN proofs
         /\ SomeFlagged(proofs[ExpandName(x, <<cur.label>>)].roots[1])

RECURSIVE StepTypes(_)
\* the kinds of the steps of the proof a tree stands for, in the order of
\* summarize_proof
StepTypes(node) ==
    Flatten([i \in 1..Len(node.mand_vars) |-> StepTypes(node.mand_vars[i])])
    \o Flatten([i \in 1..Len(node.hps) |-> StepTypes(node.hps[i])])
    \o <<node.type>>

\* the number of $p steps of the proof a tree stands for
CountP(node) == Cardinality({i \in 1..Len(StepTypes(node)) : StepTypes(node)[i] = "$p"})

\* the keys 'expand_{X}_in_{T}' of the proof table for the theorem T
VariantKeys(T) == {n \in DOMAIN proofs : Len(n) = 4 /\ n[1] = "expand_" /\ n[4] = T}

RECURSIVE Variants(_)
\* the number of trees held under the keys of the set
Variants(keys) ==
    IF keys = {} THEN 0
    ELSE LET n == CHOOSE k \in keys : TRUE
         IN Len(proofs[n].roots) + Variants(keys \ {n})

\* min(number of $p steps of the proof of T, threshold), the number of $p
\* steps when threshold = -1
Passes(T) ==
    LET steps == CountP(proofs[<<T>>].roots[1])
    IN IF threshold # -1 /\ threshold < steps THEN threshold ELSE steps

\* C20: shape of the proof table.  Every theorem label maps to a single root
\* ProofNode, whatever its spelling; every key expand_X_in_T maps to a
\* non-empty list of roots; for each theorem T the number of variants under
\* the keys expand_*_in_T is at most the number of passes, min(number of $p
\* steps of T's proof, threshold), and is that number once the passes of T are
\* over (T is bound in the label table), every $p step being selected.
C20_ProofTableShape ==
    \A n \in DOMAIN proofs :
       /\ Len(n) = 1 => proofs[n].single
       /\ Len(n) > 1 => ~proofs[n].single /\ proofs[n].roots # <<>>
       /\ (Len(n) = 1 /\ proofs[n].single) =>
             /\ Variants(VariantKeys(n[1])) <= Passes(n[1])
             /\ (n[1] \in DOMAIN labels /\ cur.label # n[1]) =>
                   Variants(VariantKeys(n[1])) = Passes(n[1])

(***************************************************************************)
(* C21 .. C23: operations on one tree (SpecTrees)                           *)
(***************************************************************************)
\* some immediate child of the node is substituted
HasFlaggedChild(node) == \E i \in 1..Len(Children(node)) : Children(node)[i].subst = TRUE

\* C21: after self.mark_subst(fromNode, propagate=True) on two trees of the
\* same shape, every node with at least one substituted immediate child is
\* itself substituted and all its immediate children are substituted, and
\* every position whose flag is True in fromNode is True in the result.
C21_MarkSubstClosed ==
    (tr.op = "done" /\ tr.marked # <<>>) =>
       /\ \A n \in Nodes(tr.marked) :
             HasFlaggedChild(n) =>
                n.subst /\ \A i \in 1..Len(Children(n)) : Children(n)[i].subst
       /\ \A m \in Nodes(tr.node) :
             m.subst => \A n \in Nodes(tr.marked) : n.id = m.id => n.subst

\* mark_subst has run on trees of four nodes and forced a node whose flag in
\* fromNode is False and whose own children stay unsubstituted
C21_Witness ==
    /\ tr.op = "done" /\ tr.marked # <<>>
    /\ SizeOf(tr.marked) = 4
    /\ \E n \in Nodes(tr.marked) :
         /\ n.subst /\ Children(n) # <<>> /\ ~HasFlaggedChild(n)
         /\ \E m \in Nodes(tr.node) : m.id = n.id /\ ~m.subst

\* the indices of the exported nodes whose rounded prediction is 1
Substituted == Keys(tr.predictions)

\* the exported edge k goes from the child of index i to its parent, and the
\* parent is substituted
EdgeToSubstitutedParent(k, i) ==
    /\ PyAt(PyAt(tr.proof_raw, 1), k) = i
    /\ PyAt(PyAt(tr.proof_raw, 2), k) \in Substituted

\* the substituted nodes without a substituted parent
SubstitutedRoots ==
    {i \in Substituted :
        ~\E k \in 0..(Len(PyAt(tr.proof_raw, 1)) - 1) : EdgeToSubstitutedParent(k, i)}

\* C22: check_proof_is_tree(export, predictions) returns 1 exactly when at
\* least two nodes have rounded prediction 1 and exactly one of them has no
\* substituted parent along the exported child-to-parent edges; it returns 0
\* otherwise (two substituted nodes without an edge between them, at most one
\* substituted node).
C22_TreeCheck ==
    (tr.op = "done" /\ tr.proof_raw # <<>>) =>
       /\ tr.raised = ""
       /\ tr.is_tree = IF Cardinality(Substituted) >= 2 /\ Cardinality(SubstitutedRoots) = 1
                       THEN 1 ELSE 0

\* the check has rejected a colouring of exactly two substituted nodes that
\* have no edge between them
C22_Witness ==
    /\ tr.op = "done" /\ tr.proof_raw # <<>>
    /\ Cardinality(Substituted) = 2
    /\ SubstitutedRoots = Substituted
    /\ tr.is_tree = 0

\* the export and the re-colouring of the tree have both run
ExportedAndColored == tr.proof_raw # <<>> /\ tr.visited # <<>>

\* C23: the node export_single_new records at index i is the i-th node
\* color_proof_tree visits and the i-th node of get_dfs; the exported graph
\* has the root at index 0, exactly one edge per non-root node, every edge
\* from a child's index to the smaller index of its parent, and as many node
\* records as the tree has nodes.
C23_SameOrder ==
    ExportedAndColored =>
       LET source == PyAt(tr.proof_raw, 1)
           target == PyAt(tr.proof_raw, 2)
           nodes_list == PyAt(tr.proof_raw, 3)
           n == SizeOf(tr.proof)
       IN /\ tr.objs = tr.visited
          /\ tr.objs = IdsOf(get_dfs(tr.proof))
          /\ PyAt(tr.objs, 0) = tr.proof.id
          /\ Len(nodes_list) = n
          /\ Len(source) = n - 1 /\ Len(target) = n - 1
          /\ \A i \in 1..(n - 1) :
                Cardinality({k \in 0..(n - 2) : PyAt(source, k) = i}) = 1
          /\ \A k \in 0..(n - 2) :
                /\ PyAt(target, k) < PyAt(source, k)
                /\ \E parent \in Nodes(tr.proof) :
                     /\ parent.id = PyAt(tr.objs, PyAt(target, k))
                     /\ \E c \in 1..Len(Children(parent)) :
                          Children(parent)[c].id = PyAt(tr.objs, PyAt(source, k))

\* a tree of four nodes whose first child has a child of its own, before the
\* second child of the root, has been exported and re-coloured
C23_Witness ==
    /\ ExportedAndColored
    /\ SizeOf(tr.proof) = 4
    /\ Len(Children(tr.proof)) = 2
    /\ Len(Children(Children(tr.proof)[1])) = 1
    /\ PyAt(PyAt(tr.proof_raw, 2), 2) = 0

(***************************************************************************)
(* C30: the flags of the stored expansion variants (Spec, family "expand")  *)
(***************************************************************************)
\* the trees stored under the keys 'expand_{X}_in_{T}'
VariantRoots ==
    UNION {{proofs[n].roots[i] : i \in 1..Len(proofs[n].roots)} :
              n \in {k \in DOMAIN proofs : Len(k) = 4 /\ k[1] = "expand_"}}

RECURSIVE FlaggedTops(_, _)
RECURSIVE FlaggedTopsOver(_, _, _)
\* the number of substituted nodes, below and including node, whose parent is
\* not substituted; parentFlagged is the flag of the parent of node
FlaggedTops(node, parentFlagged) ==
    (IF node.subst /\ ~parentFlagged THEN 1 ELSE 0)
    + FlaggedTopsOver(Children(node), 1, node.subst)

\* the same over the children of a node from child k on
FlaggedTopsOver(children, k, parentFlagged) ==
    IF k > Len(children) THEN 0
    ELSE FlaggedTops(children[k], parentFlagged)
         + FlaggedTopsOver(children, k + 1, parentFlagged)

C26_LabelsAppendOnly ==
    [][\A l \in DOMAIN labels : l \in DOMAIN labels' /\ labels'[l] = labels[l]]_vars

(***************************************************************************)
(* C27: the disjointness check and the name of the proof (Spec)             *)
(***************************************************************************)
\* the next label of the running strict verification can be an assertion
\* whose operands are on the stack with the type codes it asks for
Applicable(label) ==
    /\ label \in DOMAIN labels /\ labels[label].typ \in {"$a", "$p"}
    /\ LET entry == labels[label]
           nv == Len(entry.f_hyps)
           sp == Len(vc.stack) - nv - Len(entry.e_hyps)
       IN /\ sp >= 0
          /\ \A i \in 1..nv : /\ vc.stack[sp + i].expr # <<>>
                              /\ Head(vc.stack[sp + i].expr) = entry.f_hyps[i][1]

\* the substitution of the step: mandatory variable -> the expression proved
\* for it, without its type code
StepSubst(label) ==
    LET entry == labels[label]
        nv == Len(entry.f_hyps)
        sp == Len(vc.stack) - nv - Len(entry.e_hyps)
    IN [v \in {entry.f_hyps[i][2] : i \in 1..nv} |->
           Tail(vc.stack[sp + (CHOOSE i \in 1..nv :
                                  /\ entry.f_hyps[i][2] = v
                                  /\ \A k \in 1..nv : entry.f_hyps[k][2] = v => k <= i)].expr)]

\* some disjoint pair (x, y) of the assertion has a variable a of the
\* substitution for x and a variable b of the substitution for y that are
\* equal or, when declared matters, not declared disjoint in the active frames
PairViolates(label, declaredMatters) ==
    \E pr \in labels[label].dvs :
       \E a \in find_vars(fs, StepSubst(label)[pr[1]]),
          b \in find_vars(fs, StepSubst(label)[pr[2]]) :
            a = b \/ (declaredMatters /\ ~lookup_d(fs, a, b))

\* the step of label fails with the disjoint violation in strict mode under
\* the given name
StrictStepFails(label, name) ==
    \E r \in StepLabel(labels, fs, vc.stack, label, "error", name) :
       r.err = "DisjointViolation"

\* C27: in strict mode the disjointness check depends on the name.  With a
\* non-empty name without 'expand' a step with disjoint pair (x, y) fails
\* whenever a variable of the substitution for x and one of the substitution
\* for y are equal or are not declared disjoint in the active frame chain;
\* with the empty name or a name that contains 'expand' it fails only when
\* the two variables are equal.
C27_NameDecides ==
    (vc.on /\ vc.who = "read") =>
       \A label \in ProofLabels(fam) :
          Applicable(label) =>
             /\ StrictStepFails(label, vc.name) = PairViolates(label, ~HasExpand(vc.name))
             /\ \A name \in {<<>>, ExpandName(label, vc.name)} :
                   StrictStepFails(label, name) = PairViolates(label, FALSE)

\* inside the proof of th, outside the scope of `$d p q`, the step ax on p and
\* q fails under the name th and passes under the empty name and under
\* expand_ax_in_th
C27_Witness ==
    /\ vc.on /\ vc.who = "read" /\ vc.name = <<"th">>
    /\ Applicable("ax")
    /\ PairViolates("ax", TRUE) /\ ~PairViolates("ax", FALSE)
    /\ StrictStepFails("ax", vc.name)
    /\ ~StrictStepFails("ax", <<>>)
    /\ ~StrictStepFails("ax", ExpandName("ax", vc.name))

(***************************************************************************)
(* C28: the loop of decompress_proof (SpecDecompress)                       *)
(***************************************************************************)
\* line 813 has handed the proof to decompress_proof and the loop was reached
LoopReached ==
    /\ dec.ran /\ dec.proof.head # <<>> /\ dec.proof.head[1] = "("
    /\ IndexOfParen(dec.proof.head) # 0
    /\ Len(dec.labels) >= IndexOfParen(dec.proof.head) - 2

\* hyp_end and label_end of the run
HypEnd == Len(dec.labels) - (IndexOfParen(dec.proof.head) - 2)
LabelEnd == Len(dec.labels)

\* the locals of the loop after its first k iterations, and the exception
AfterInts(k) ==
    unfold_from(labels, dec.labels, HypEnd, SubSeq(dec.ints, 1, k), 1,
                [decompressed_ints |-> <<>>, subproofs |-> <<>>, prev_proofs |-> <<>>])

\* the number of arguments of the step the integer n stands for, by the label
\* table
Arity(n) ==
    IF n < HypEnd \/ dec.labels[n + 1] \notin DOMAIN labels THEN 0
    ELSE LET step == labels[dec.labels[n + 1]]
         IN IF step.typ \in {"$a", "$p"} THEN Len(step.e_hyps) + Len(step.f_hyps) ELSE 0

RECURSIVE StartOf(_, _)
RECURSIVE ArgsStart(_, _, _)
\* where the subproof that ends with the step at position i of ints starts:
\* the step and, before it, the subproofs of its arguments
StartOf(ints, i) == ArgsStart(ints, i, Arity(ints[i]))

\* the start of the a subproofs that end before position j
ArgsStart(ints, j, a) ==
    IF a = 0 \/ j <= 1 THEN j ELSE ArgsStart(ints, StartOf(ints, j - 1), a - 1)

RECURSIVE Depth(_, _)
\* the number of completed subproofs that wait for a step after the first i
\* integers of ints
Depth(ints, i) == IF i = 0 THEN 0 ELSE Depth(ints, i - 1) - Arity(ints[i]) + 1

\* every step of ints has the subproofs of all its arguments before it
ArgumentsThere(ints) == \A i \in 1..Len(ints) : Depth(ints, i - 1) >= Arity(ints[i])

\* the most recently completed subproof of the integers emitted so far
LastSubproof(ints) == SubSeq(ints, StartOf(ints, Len(ints)), Len(ints))

\* C28: during decompression the concatenation of prev_proofs is the list of
\* integers emitted so far; a Z records the most recently completed subproof
\* (the last entry of prev_proofs: the last emitted step with the subproofs of
\* its arguments, by its arity in the label table, in a proof whose steps all
\* have their arguments) and emits nothing; an integer n >= label_end emits the
\* whole (n - label_end)-th recorded subproof in place; the output is the
\* labels of the emitted integers.
C28_TrackedSubproofs ==
    LoopReached =>
       /\ \A k \in 0..Len(dec.ints) :
             LET now == AfterInts(k) IN
             now.err = "" =>
                /\ Flatten(now.st.prev_proofs) = now.st.decompressed_ints
                /\ k >= 1 =>
                     LET before == AfterInts(k - 1).st
                         n == dec.ints[k]
                     IN /\ n = -1 =>
                             /\ now.st.subproofs =
                                   Append(before.subproofs,
                                          before.prev_proofs[Len(before.prev_proofs)])
                             /\ ArgumentsThere(before.decompressed_ints) =>
                                   now.st.subproofs =
                                      Append(before.subproofs,
                                             LastSubproof(before.decompressed_ints))
                             /\ now.st.decompressed_ints = before.decompressed_ints
                        /\ n >= LabelEnd =>
                             /\ now.st.decompressed_ints =
                                   before.decompressed_ints
                                   \o before.subproofs[n - LabelEnd + 1]
                             /\ now.st.subproofs = before.subproofs
                        /\ (n >= 0 /\ n < LabelEnd) =>
                             /\ now.st.decompressed_ints = Append(before.decompressed_ints, n)
                             /\ now.st.subproofs = before.subproofs
       /\ dec.raised = "" =>
             LET end == AfterInts(Len(dec.ints)).st.decompressed_ints
             IN dec.out = [i \in 1..Len(end) |-> dec.labels[end[i] + 1]]

\* ABCZ D with the labels wp, wq, ax: the Z has recorded the step ax with the
\* subproofs of its two arguments, and the D has emitted them again
C28_Witness ==
    /\ LoopReached /\ dec.raised = ""
    /\ dec.ints = <<0, 1, 2, -1, 3>>
    /\ ArgumentsThere(<<0, 1, 2>>)
    /\ AfterInts(4).st.subproofs = <<<<0, 1, 2>>>>
    /\ dec.out = <<"wp", "wq", "ax", "wp", "wq", "ax">>

(***************************************************************************)
(* C29: the labels of the leaves of X after the splice (Spec, family        *)
(* "splice")                                                                *)
(***************************************************************************)
RECURSIVE PNodes(_)
\* the $p steps of the derivation a tree stands for, in the order in which
\* verify_custom counts them (proof_count)
PNodes(node) ==
    Flatten([i \in 1..Len(Children(node)) |-> PNodes(Children(node)[i])])
    \o (IF node.type = "$p" THEN <<node>> ELSE <<>>)

\* the steps of label X among them
XSteps(T, X) ==
    LET steps == PNodes(proofs[<<T>>].roots[1])
        at == {i \in 1..Len(steps) : steps[i].label = X}
        nth(j) == CHOOSE i \in at : Cardinality({k \in at : k <= i}) = j
    IN [j \in 1..Cardinality(at) |-> steps[nth(j)]]

RECURSIVE TopFlagged(_)
\* the substituted nodes of a tree that have no substituted parent
TopFlagged(node) ==
    IF node.subst THEN <<node>>
    ELSE Flatten([i \in 1..Len(Children(node)) |-> TopFlagged(Children(node)[i])])

\* the hypotheses of the assertion X: the keys of expand_subst
MandatoryKeys(X) ==
    {labels[X].f_hyps[i] : i \in 1..Len(labels[X].f_hyps)}
    \cup {labels[X].e_hyps[j] : j \in 1..Len(labels[X].e_hyps)}

RECURSIVE TempLeafLabels(_, _, _)
\* the labels that the temporary $f leaves of the stored proof xnode of X (the
\* $f leaves that are no hypothesis of X) carry in the spliced copy enode
TempLeafLabels(xnode, enode, keys) ==
    UNION {LET x == Children(xnode)[i]
               c == Children(enode)[i]
           IN IF IsLeaf(x)
              THEN IF x.type = "$f" /\ x.expr \notin keys THEN {c.label} ELSE {}
              ELSE TempLeafLabels(x, c, keys)
             : i \in 1..Len(Children(xnode))}

\* the splices the proof table holds: [X, T, j] for the j-th variant under
\* 'expand_{X}_in_{T}', X and T being stored as they were when it was made
Splices ==
    {[X |-> k[2], T |-> k[4], j |-> j] :
        k \in {n \in DOMAIN proofs : Len(n) = 4 /\ n[1] = "expand_" /\ n[2] # n[4]},
        j \in 1..MaxProofLen}

\* the splice is there to be looked at
Stored(s) ==
    LET k == ExpandName(s.X, <<s.T>>) IN
    /\ s.j <= Len(proofs[k].roots)
    /\ <<s.X>> \in DOMAIN proofs /\ proofs[<<s.X>>].single
    /\ <<s.T>> \in DOMAIN proofs /\ proofs[<<s.T>>].single
    /\ s.X \in DOMAIN labels /\ labels[s.X].typ = "$p"
    /\ s.j <= Len(XSteps(s.T, s.X))
    /\ Len(TopFlagged(proofs[k].roots[s.j])) = 1

\* the labels the temporary leaves of X carry in the splice
LeafLabelsOf(s) ==
    TempLeafLabels(proofs[<<s.X>>].roots[1],
                   TopFlagged(proofs[ExpandName(s.X, <<s.T>>)].roots[s.j])[1],
                   MandatoryKeys(s.X))

\* C29 as stated: after the stored proof of X is spliced into the derivation
\* of T, no temporary floating-variable leaf that comes from the proof of X
\* carries a label that is in use anywhere else in the derivation of T.
C29_NoLabelOfT ==
    \A s \in Splices :
       Stored(s) => LeafLabelsOf(s) \cap TokSet(summarize_proof(proofs[<<s.T>>].roots[1])) = {}
(***************************************************************************)
(* C24: a rewrite the engine keeps leaves the proof valid and shorter        *)
(***************************************************************************)
\* the stored proof of the original the last rewrite was tried on
LastOriginal == proofs[rf.last.of].roots[1]

\* the subtrees below node, node itself included
SubtreesOf(node) == {get_post_order(node)[n] : n \in 1..Len(get_post_order(node))}

C25_StoredUntouched ==
    rf.at = "returned" =>
        /\ proofs = rf.before
        /\ \A k \in DOMAIN proofs : \A n \in 1..Len(proofs[k].roots) : ~AnyFlag(proofs[k].roots[n])
        /\ \A n \in 1..Len(rf.refactored_theorems) :
              /\ rf.refactored_theorems[n].name \notin DOMAIN proofs
              /\ ~AnyFlag(rf.refactored_theorems[n])

\* refactor_all has returned after the template was coloured for a match,
\* the copy rewritten, and the template matched against the rewritten copy
\* once more
C25_Witness ==
    /\ rf.at = "returned"
    /\ rf.last.kept
    /\ rf.count = 0 /\ Len(rf.refactored_theorems) = 1
    /\ rf.last.by \in DOMAIN proofs
    /\ rf.last.after # proofs[rf.last.of].roots[1]

(***************************************************************************)
(* C31: the flags of a stored expansion variant as a tree (Spec)             *)
(***************************************************************************)
\* proof_raw of analyze_predictions_test for the stored tree root (lines
\* 354-355)
ProofRawOf(root) ==
    LET res == export_single_new(WithIds(root, <<>>))
    IN <<"name", res.source, res.target, res.nodes_list>>

\* the labels of the nodes of proof_raw, the exported flags, in tenths
GroundTruth(proof_raw) ==
    [i \in 1..Len(PyAt(proof_raw, 3)) |-> 10 * PyAt(proof_raw, 3)[i][3]]

\* C31 as stated: check_proof_is_tree returns 1 on the own flags of every
\* expansion variant stored in the proof table (at least two nodes are
\* flagged, and the flagged nodes have one topmost node).
C31_VariantsAreTrees ==
    \A r \in VariantRoots :
       check_proof_is_tree(ProofRawOf(r), GroundTruth(ProofRawOf(r))) = [ret |-> 1, raised |-> ""]

(***************************************************************************)
(* C32: what match_theorem_current_node reports (SpecRefactor)              *)
(***************************************************************************)
\* refactor_all is in the loop over the nodes of the copy (lines 211-216)
Matching == rf.at = "running" /\ rf.i <= Len(rf.originals) /\ rf.j <= Len(rf.templates)

\* new_proof of line 208
Template == proofs[rf.templates[rf.j]].roots[1]

\* refactored_proof_list of line 211
CopyNodes == get_post_order(rf.refactored_proof)

RECURSIVE SameLabels(_, _)
\* the two nodes carry the same label and, the pattern node being a $a or $p
\* node, their children do so pairwise in order
SameLabels(original_node, matching_node) ==
    /\ original_node.label = matching_node.label
    /\ labels[matching_node.label].typ \in {"$a", "$p"} =>
          /\ Len(Children(original_node)) = Len(Children(matching_node))
          /\ \A c \in 1..Len(Children(matching_node)) :
                SameLabels(Children(original_node)[c], Children(matching_node)[c])

RECURSIVE PatternFits(_, _)
\* the pattern node is a $e or $f leaf, or it is a $a or $p node, the two
\* nodes carry the same label and their children fit pairwise in order
PatternFits(original_node, matching_node) ==
    \/ labels[matching_node.label].typ \in {"$e", "$f"}
    \/ /\ original_node.label = matching_node.label
       /\ Len(original_node.mand_vars) = Len(matching_node.mand_vars)
       /\ Len(original_node.hps) = Len(matching_node.hps)
       /\ \A c \in 1..Len(Children(matching_node)) :
             PatternFits(Children(original_node)[c], Children(matching_node)[c])

\* C32 as stated: a node of the copy is reported to match the template
\* exactly when the two carry the same label and, for $a/$p nodes, their
\* children match pairwise in order.
C32_MatchIsSameLabels ==
    Matching =>
        \A n \in 1..Len(CopyNodes) :
           match_theorem_current_node(CopyNodes[n], Template, labels).res
               <=> SameLabels(CopyNodes[n], Template)

\* C32, amended: a pattern node that is a $e/$f leaf matches any original
\* node whatever its label; a $a/$p pattern node matches exactly the nodes of
\* the same label whose children match its children pairwise in order; at the
\* root of the pattern the match is reported only if additional_check
\* accepts it as well.  No exception is raised on the way.
C32_MatchIsPatternFit ==
    Matching =>
        \A n \in 1..Len(CopyNodes) :
           LET m == match_theorem_current_node(CopyNodes[n], Template, labels) IN
           /\ m.err = ""
           /\ MatchBelow(CopyNodes[n], Template, labels) = "match"
                 <=> PatternFits(CopyNodes[n], Template)
           /\ m.res <=> /\ PatternFits(CopyNodes[n], Template)
                        /\ additional_check(CopyNodes[n], Template, labels).res

\* a node of the copy has matched the template and been rewritten though a
\* subtree of it stands where the template has a $f leaf of another label
C32_Witness ==
    /\ rf.last.kept
    /\ rf.last.by \in DOMAIN proofs
    /\ PatternFits(NodeAt(rf.last.before, rf.last.path), proofs[rf.last.by].roots[1])
    /\ ~SameLabels(NodeAt(rf.last.before, rf.last.path), proofs[rf.last.by].roots[1])

(***************************************************************************)
(* C33: additional_check (SpecRefactor)                                     *)
(***************************************************************************)
\* the places of the $f leaves of the pattern that stand for the variable
\* with the floating hypothesis mand_var
PlacesOf(matching_proof, mand_var) ==
    {PostOrderPaths(matching_proof)[n] : n \in
        {k \in 1..Len(PostOrderPaths(matching_proof)) :
            LET leaf == NodeAt(matching_proof, PostOrderPaths(matching_proof)[k])
            IN /\ PostOrderPaths(matching_proof)[k] # <<>>
               /\ IsLeaf(leaf) /\ leaf.type = "$f" /\ leaf.expr = mand_var}}

\* every mandatory variable of the theorem of the pattern has a $f leaf in
\* the pattern, and the subtrees of original_node at the places of its leaves
\* have one expression
Consistent(original_node, matching_proof) ==
    \A v \in 1..Len(labels[matching_proof.name[1]].f_hyps) :
       Cardinality({NodeAt(original_node, p).expr :
                       p \in PlacesOf(matching_proof,
                                      labels[matching_proof.name[1]].f_hyps[v])}) = 1

\* C33: a node of the copy is reported to match the root of the template
\* only if every mandatory variable of the template's theorem has a $f leaf
\* in the template and the subtrees of the node at the places of these leaves
\* have the same expression; after the check the template and the node are
\* what they were and no node of either is flagged.
C33_ConsistentOrRejected ==
    Matching =>
        \A n \in 1..Len(CopyNodes) :
           LET m == match_theorem_current_node(CopyNodes[n], Template, labels) IN
           /\ m.res => Consistent(CopyNodes[n], Template)
           /\ (PatternFits(CopyNodes[n], Template) /\ ~Consistent(CopyNodes[n], Template))
                 => ~m.res /\ m.err = ""
           /\ m.tmpl = Template /\ ~AnyFlag(m.tmpl)
           /\ m.node = CopyNodes[n] /\ ~AnyFlag(m.node)

\* the root of th, wn(wi(wp, wq)), fits the template wn(wi(wp, wp)) of
\* new_theorem_0 and is rejected: wp and wq stand where the template names p
C33_Witness ==
    /\ Matching
    /\ summarize_proof(Template) = <<"wp", "wp", "wi", "wn">>
    /\ summarize_proof(rf.refactored_proof) = <<"wp", "wq", "wi", "wn">>
    /\ PatternFits(rf.refactored_proof, Template)
    /\ ~Consistent(rf.refactored_proof, Template)
    /\ ~match_theorem_current_node(rf.refactored_proof, Template, labels).res


(***************************************************************************)
(* C34: a comment left open at the end of the input (SpecToks)              *)
(***************************************************************************)
\* the token source has run out of files inside a comment
UnclosedComment == tk.lines_buf = <<>> /\ tk.tok = "$("

\* C34: a comment opened with `$(` and not closed before the end of the input
\* makes the reader abort with MMError: a call of readc that ends with an
\* exception ends with MMError, and the reader that ran out of input inside
\* a comment has raised it.
C34_UnclosedCommentIsMMError ==
    /\ err # "" => err = "MMError"
    /\ UnclosedComment => err = "MMError"

(***************************************************************************)
(* C35: what ProofNode.get_leaves returns (SpecRefactor)                     *)
(***************************************************************************)
RECURSIVE get_leaves_change_type(_)
\* the tree after node.get_leaves(change_type=True) (lines 289-310): the type
\* of every childless child is set, '$f' in mand_vars and '$e' in hps
get_leaves_change_type(node) ==
    [node EXCEPT
       !.mand_vars = [i \in 1..Len(node.mand_vars) |->
                         IF IsLeaf(node.mand_vars[i])
                         THEN [node.mand_vars[i] EXCEPT !.type = "$f"]
                         ELSE get_leaves_change_type(node.mand_vars[i])],
       !.hps = [i \in 1..Len(node.hps) |->
                   IF IsLeaf(node.hps[i])
                   THEN [node.hps[i] EXCEPT !.type = "$e"]
                   ELSE get_leaves_change_type(node.hps[i])]]

\* the nodes below node, left to right (a node before its children,
\* mand_vars before hps)
Descendants(node) == Tail(get_dfs(node))

\* the step is a hypothesis
IsHypothesis(node) == node.type \in {"$e", "$f"}

\* the step is no hypothesis
IsAssertion(node) == ~IsHypothesis(node)

\* C35: get_leaves returns exactly the $e/$f descendants of the node, left to
\* right: no node of another kind is returned, and with change_type the kind
\* of no such node is changed.
C35_LeavesAreHypotheses ==
    \A root \in StoredRoots :
       /\ get_leaves(root) = SelectSeq(Descendants(root), IsHypothesis)
       /\ SelectSeq(get_dfs(get_leaves_change_type(root)), IsAssertion)
             = SelectSeq(get_dfs(root), IsAssertion)

\* C35 as the code has it: get_leaves returns exactly the childless
\* descendants of the node, left to right (mandatory-variable children before
\* hypothesis children at every node): the $e/$f steps and any $a/$p step
\* with no operands; with change_type the kind of every returned node is set,
\* $f for a mandatory-variable child and $e for a hypothesis child, and
\* nothing else of the tree is changed.
C35_LeavesAreChildless ==
    \A root \in StoredRoots :
       LET after == get_leaves_change_type(root)
           was == get_dfs(root)
           now == get_dfs(after)
       IN /\ get_leaves(root) = SelectSeq(Descendants(root), IsLeaf)
          /\ Len(now) = Len(was)
          /\ \A n \in 1..Len(now) :
                /\ \A i \in 1..Len(now[n].mand_vars) :
                      IsLeaf(now[n].mand_vars[i]) => now[n].mand_vars[i].type = "$f"
                /\ \A i \in 1..Len(now[n].hps) :
                      IsLeaf(now[n].hps[i]) => now[n].hps[i].type = "$e"
                /\ (n = 1 \/ ~IsLeaf(was[n])) => now[n].type = was[n].type
                /\ now[n].label = was[n].label /\ now[n].expr = was[n].expr
                /\ Len(now[n].mand_vars) = Len(was[n].mand_vars)
                /\ Len(now[n].hps) = Len(was[n].hps)
          /\ get_leaves(after) = SelectSeq(Descendants(after), IsHypothesis)

\* the engine has kept a rewrite by a template whose tree has a childless
\* $a step, which get_leaves has returned among the leaves of the template
C35_Witness ==
    /\ rf.last.kept
    /\ rf.last.by \in DOMAIN proofs
    /\ \E i \in 1..Len(get_leaves(proofs[rf.last.by].roots[1])) :
          /\ get_leaves(proofs[rf.last.by].roots[1])[i].type = "$a"
          /\ IsLeaf(get_leaves(proofs[rf.last.by].roots[1])[i])

(***************************************************************************)
(* C36: refactor_all terminates (SpecRefactorEnds)                           *)
(***************************************************************************)
\* a turn of the loop of lines 210-231 can be taken: the guard of
\* RefactorAttempt, whose outcomes are never none
AttemptEnabled ==
    rf.at = "running" /\ rf.i <= Len(rf.originals) /\ rf.j <= Len(rf.templates)

\* refactor_all is one sequential run: once called, the turn of the loop
\* that can be taken is taken.  For RefactorAttempt this is weak fairness
\* written out, with AttemptEnabled for ENABLED <<RefactorAttempt>>_vars.
SpecRefactorEnds ==
    /\ SpecRefactor
    /\ WF_vars(RefactorNext)
    /\ WF_vars(RefactorReturn)
    /\ ([]<>~AttemptEnabled \/ []<><<RefactorAttempt>>_vars)

\* the template the last rewrite was made by, as it is stored
LastTemplate == proofs[rf.last.by].roots[1]

\* a rewrite the engine has kept has made the copy smaller, and the
\* rewritten node does not match the template any more; the only exception
\* that ends the loop is the one of a rewrite that does not verify
RewriteShrinks ==
    /\ rf.last.kept =>
         /\ SizeOf(rf.last.after) < SizeOf(rf.last.before)
         /\ match_theorem_current_node(NodeAt(rf.last.after, rf.last.path), LastTemplate,
                                       labels).err = ""
         /\ ~match_theorem_current_node(NodeAt(rf.last.after, rf.last.path), LastTemplate,
                                        labels).res
    /\ rf.at = "raised" =>
         /\ rf.raised = "NotImplementedError"
         /\ rf.last.tried /\ ~rf.last.kept

\* refactor_all has ended: it has returned or raised
RefactorEnded == rf.at \in {"returned", "raised"}

\* C36: refactor_all terminates: every rewrite that is kept strictly
\* decreases the number of nodes of the proof being refactored and the
\* rewritten node does not match the same template again, so the loop of a
\* pair (original, new theorem) makes finitely many rewrites; a run of
\* refactor_all ends, with no match left or with the error of a rewrite that
\* fails to verify.  (The databases of the families are as the extraction of
\* new theorems makes them: every $e hypothesis of a new theorem stands at
\* one leaf of its proof, which lines 60, 70, 122 and 132 assert.)
C36_RefactorTerminates ==
    /\ []RewriteShrinks
    /\ (rf.at = "running") ~> RefactorEnded

\* refactor_all has returned after a rewrite that it kept and one more turn
\* of the loop of the same pair, which found no match
C36_Witness ==
    /\ rf.at = "returned"
    /\ rf.last.kept
    /\ Len(rf.refactored_theorems) > 0
    /\ SizeOf(rf.last.after) < SizeOf(rf.last.before)

(***************************************************************************)
(* C37: MM.read returns at the end of the input (Spec)                       *)
(***************************************************************************)
\* C37: while MM.read runs the frame stack holds the frame of the top-level
\* call and one frame for each ${ not yet closed, and read returns normally
\* only at the end of the input, with every frame popped: no statement of
\* the input is the one read returns on, so a $} without a ${ at top level
\* does not end reading before the statements that follow it.
C37_ReturnsAtEndOfInput ==
    [][/\ rd' = "reading" => Len(fs') >= 1
       /\ (rd = "reading" /\ rd' = "done") =>
             /\ fs' = <<>>
             /\ pos' = pos /\ nstmt' = nstmt]_vars

(***************************************************************************)
(* C38: a dummy verify leaves the tables alone (Spec, family "verify")       *)
(***************************************************************************)
\* a call verify_custom(stat, proof, '', mode) from outside read is running
Speculative == vc.on /\ vc.who = "api" /\ vc.name = <<>>

\* C38: verify_custom called with name '' and num_expand = 0, in either mode
\* and whether it returns True, returns False or raises, leaves the label
\* table, the proof table, the frame stack and current_subproof_count as
\* they were: no step of the call, from its entry to its end, changes them.
C38_SpeculativeNoSideEffects ==
    [][(Speculative \/ Speculative' \/ call' # call) =>
          UNCHANGED <<labels, proofs, fs, current_subproof_count>>]_vars

\* a probe-mode call on a proof of two or more labels has returned True
\* while the proof table held the proof of a theorem read before
C38_Witness ==
    /\ call.at = "end" /\ call.ret = "True" /\ call.mode = "other"
    /\ Len(call.proof) >= 2
    /\ proofs # EmptyMap
    /\ current_subproof_count # NoCount
====
